---- MODULE Spec2Model ----
(***************************************************************************)
(* Verification model of claude-hybrid-router: the per-host certificate    *)
(* cache, the MITM CONNECT proxy with its keep-alive tunnel loop, the      *)
(* route detector, the OpenAI -> Anthropic SSE stream translator and the   *)
(* transform chain.                                                        *)
(***************************************************************************)
EXTENDS Integers, Sequences, FiniteSets, TLC

(***************************************************************************)
(* Bounds                                                                  *)
(***************************************************************************)
\* number of goroutines calling GetTLSConfig concurrently
NumCallers == 2
\* total number of certificates minted in one behaviour
MaxMints == 3
\* last tick of the wall clock
MaxTime == 2
\* capacity of the certificate cache (config.MitmCacheMaxSize, env-tunable)
MitmCacheMaxSize == 2
\* certificate validity in clock ticks (config.MitmCertValidityHours, env-tunable)
Validity == 2

\* number of backend lines of one streaming response
MaxLines == 4
\* number of backend lines of the first response when two responses are
\* interleaved (the second response has one line)
IsoMaxLines == 1
\* routed requests whose streaming responses can be in flight together
NumRequests == 2
\* transformers in a directly driven chain, and runs made on it
MaxChain == 3
MaxRuns == 3
\* characters of content streamed through a think-tag transformer, and
\* characters of one chunk's delta.content
MaxText == 5
MaxPiece == 2

\* const maxToolCallBufferSize = 1 << 20
maxToolCallBufferSize == 1048576

Hosts == {"a.test", "b.test", "c.test"}
Serials == {11, 22}
Callers == 1..NumCallers

NoElem == 0

VARIABLES
    \* ---- CertCache (mitm package) ----
    cache,      \* CertCache.cache: hostname -> list element id (NoElem = no key)
    order,      \* CertCache.order: LRU list, front = most recently used
    nextElem,   \* identity of the next list element allocated by PushFront
    now,        \* wall clock read by time.Now / time.Since
    cpc,        \* position of each GetTLSConfig caller
    chost,      \* hostname argument of the running call
    ccert,      \* certificate (serial) minted by generateCert for the call
    issued      \* history: per host, the certificates handed out that are
                \* still within their validity period, since the host was
                \* last evicted for capacity

certVars == <<cache, order, nextElem, now, cpc, chost, ccert, issued>>

VARIABLES
    \* ---- routed streaming requests (Proxy.forwardLocal, StreamTranslator) ----
    spc,        \* position of each routed request's handler
    budget,     \* lines the backend of each request has still to deliver
    translators, \* each request's StreamTranslator (w is the SSE buffer)
    chain,      \* st.chain and st.ctx: the chain's transformer objects and context
    objects,    \* transformer objects allocated by the registry constructors
    ctxs,       \* TransformContext objects allocated by NewTransformContext
    fed,        \* history: thinking text handed to processChunk
    failed,     \* history: the backend chunks read last, without one in
                \* between, for which the chain returned an error
    serr,       \* error returned by TranslateStream ("" = nil)
    wire        \* what forwardLocal wrote to the client for the request

streamVars == <<spc, budget, translators, chain, objects, ctxs, fed, failed, serr,
                wire>>

VARIABLES
    \* ---- Proxy (proxy package) ----
    sem,        \* Proxy.sem: number of slots taken in the buffered channel
    resolver,   \* Proxy.modelResolver is set (TRUE) or nil (FALSE)
    backend,    \* the request handed to localClient.Do for the request read last
    ppc,        \* position of each connection's ServeHTTP goroutine
    reply,      \* status line written in answer to the CONNECT (0 = nothing)
    reqBudget,  \* requests the client has still to send on the connection
    cur,        \* the request read last by http.ReadRequest; its body is kept
                \* while the loop iteration runs
    route,      \* what the iteration decided: callee, model, body passed on
    resp,       \* the response written for the request read last
    nread,      \* requests read from the tunnel
    nresp       \* responses completely written to the tunnel

proxyVars == <<sem, resolver, backend, ppc, reply, reqBudget, cur, route, resp,
              nread, nresp>>

VARIABLES
    \* ---- a TransformChain driven directly (translate package) ----
    tpc,        \* "new" before NewTransformChain, "ready" after
    tchain,     \* TransformChain.transformers: the transformer objects in order
    tctx,       \* the TransformContext handed to every run
    tlast,      \* the run made last: operation, input, what it returned
    tfed,       \* backend chunks handed to RunStreamChunk so far
    tstream,    \* the chunks RunStreamChunk returned so far, in order
    truns       \* runs still to be made

chainVars == <<tpc, tchain, tctx, tlast, tfed, tstream, truns>>

VARIABLES
    \* ---- a think-tag transformer fed content chunks (translate package) ----
    fpc,        \* "new" before the constructor ran, "ready" after
    ftr,        \* the thinkTagTransform / forceReasoningTransform object
    fctx,       \* the TransformContext handed to every call
    fgiven,     \* history: the delta.content of the chunks fed, concatenated
    fout        \* the chunks TransformStreamChunk returned so far, in order

thinkVars == <<fpc, ftr, fctx, fgiven, fout>>

\* what the certificate cache, a routed streaming request, the proxy, a
\* directly driven chain and a directly driven think-tag transformer leave
\* alone
notCert == <<streamVars, proxyVars, chainVars, thinkVars>>
notStream == <<certVars, proxyVars, chainVars, thinkVars>>
notProxy == <<certVars, streamVars, chainVars, thinkVars>>
notChain == <<certVars, streamVars, proxyVars, thinkVars>>
notThink == <<certVars, streamVars, proxyVars, chainVars>>

(***************************************************************************)
(* Sequence helpers                                                        *)
(***************************************************************************)
SeqRemoveAt(s, i) == SubSeq(s, 1, i - 1) \o SubSeq(s, i + 1, Len(s))

SeqIndexOfElem(s, id) ==
    IF \E i \in 1..Len(s) : s[i].id = id
    THEN CHOOSE i \in 1..Len(s) : s[i].id = id
    ELSE 0

\* list.Remove(el): no effect when el is not an element of the list
ListRemove(s, id) ==
    IF SeqIndexOfElem(s, id) = 0 THEN s ELSE SeqRemoveAt(s, SeqIndexOfElem(s, id))

\* list.MoveToFront(el)
ListMoveToFront(s, id) ==
    IF SeqIndexOfElem(s, id) = 0 THEN s
    ELSE <<s[SeqIndexOfElem(s, id)]>> \o SeqRemoveAt(s, SeqIndexOfElem(s, id))

ElemOf(s, id) == s[SeqIndexOfElem(s, id)]

(***************************************************************************)
(* CertCache.GetTLSConfig                                                  *)
(***************************************************************************)
\* time.Since(entry.created) < c.validity
NotExpired(e) == now - e.created < Validity

\* the eviction loop: for c.order.Len() > c.maxSize { remove Back; delete key }
RECURSIVE EvictLoop(_, _)
EvictLoop(ord, cch) ==
    IF Len(ord) > MitmCacheMaxSize
    THEN EvictLoop(SubSeq(ord, 1, Len(ord) - 1),
                   [cch EXCEPT ![ord[Len(ord)].hostname] = NoElem])
    ELSE [order |-> ord, cache |-> cch]

\* hostnames whose list element is dropped by the eviction loop
EvictedHosts(ord) ==
    {ord[i].hostname : i \in (MitmCacheMaxSize + 1)..Len(ord)}

\* first critical section (lines 82-99): hit, expired or miss
GetTLSConfigLookup(p, h) ==
    /\ cpc[p] = "idle"
    /\ nextElem <= MaxMints
    /\ chost' = [chost EXCEPT ![p] = h]
    /\ IF cache[h] # NoElem /\ NotExpired(ElemOf(order, cache[h]))
       THEN \* cache hit: MoveToFront and return the cached certificate
            /\ order' = ListMoveToFront(order, cache[h])
            /\ issued' = [issued EXCEPT ![h] = @ \cup
                            {[serial |-> ElemOf(order, cache[h]).serial,
                              created |-> ElemOf(order, cache[h]).created]}]
            /\ cpc' = [cpc EXCEPT ![p] = "idle"]
            /\ UNCHANGED cache
       ELSE IF cache[h] # NoElem
       THEN \* expired: remove the element and the key, then mint
            /\ order' = ListRemove(order, cache[h])
            /\ cache' = [cache EXCEPT ![h] = NoElem]
            /\ cpc' = [cpc EXCEPT ![p] = "generate"]
            /\ UNCHANGED issued
       ELSE \* miss
            /\ cpc' = [cpc EXCEPT ![p] = "generate"]
            /\ UNCHANGED <<order, cache, issued>>
    /\ UNCHANGED <<nextElem, now, ccert>>
    /\ UNCHANGED notCert

\* generateCert outside the lock (line 101): a random 128-bit serial
GenerateCert(p) ==
    /\ cpc[p] = "generate"
    /\ \E s \in Serials :
        /\ ccert' = [ccert EXCEPT ![p] = s]
        /\ cpc' = [cpc EXCEPT ![p] = "insert"]
    /\ UNCHANGED <<cache, order, nextElem, now, chost, issued>>
    /\ UNCHANGED notCert

\* generateCert returns an error (lines 102-104): the call fails
GenerateCertFails(p) ==
    /\ cpc[p] = "generate"
    /\ cpc' = [cpc EXCEPT ![p] = "idle"]
    /\ UNCHANGED <<cache, order, nextElem, now, chost, ccert, issued>>
    /\ UNCHANGED notCert

\* second critical section (lines 106-115): PushFront, set key, evict
GetTLSConfigInsert(p) ==
    /\ cpc[p] = "insert"
    /\ LET h == chost[p]
           entry == [id |-> nextElem, hostname |-> h,
                     serial |-> ccert[p], created |-> now]
           pushed == <<entry>> \o order
           res == EvictLoop(pushed, [cache EXCEPT ![h] = nextElem])
           gone == EvictedHosts(pushed)
       IN /\ order' = res.order
          /\ cache' = res.cache
          /\ issued' = [x \in Hosts |->
                          IF x \in gone /\ x # h THEN {}
                          ELSE IF x = h
                          THEN (IF h \in gone THEN {} ELSE issued[h])
                                  \cup {[serial |-> ccert[p], created |-> now]}
                          ELSE issued[x]]
    /\ nextElem' = nextElem + 1
    /\ cpc' = [cpc EXCEPT ![p] = "idle"]
    /\ UNCHANGED <<now, chost, ccert>>
    /\ UNCHANGED notCert

\* the wall clock advances
Tick ==
    /\ now < MaxTime
    /\ now' = now + 1
    /\ issued' = [h \in Hosts |->
                    {r \in issued[h] : (now + 1) - r.created < Validity}]
    /\ UNCHANGED <<cache, order, nextElem, cpc, chost, ccert>>
    /\ UNCHANGED notCert

CertInit ==
    /\ cache = [h \in Hosts |-> NoElem]
    /\ order = <<>>
    /\ nextElem = 1
    /\ now = 0
    /\ cpc = [p \in Callers |-> "idle"]
    /\ chost = [p \in Callers |-> "a.test"]
    /\ ccert = [p \in Callers |-> 0]
    /\ issued = [h \in Hosts |-> {}]

CertNext ==
    \/ \E p \in Callers, h \in Hosts : GetTLSConfigLookup(p, h)
    \/ \E p \in Callers : GenerateCert(p)
    \/ \E p \in Callers : GenerateCertFails(p)
    \/ \E p \in Callers : GetTLSConfigInsert(p)
    \/ Tick


(***************************************************************************)
(* OpenAI streaming chunks (translate.OStreamChunk and the untyped maps    *)
(* the transforms work on)                                                 *)
(***************************************************************************)
NoUsage == [present |-> FALSE, prompt |-> 0, completion |-> 0]
SomeUsage == [present |-> TRUE, prompt |-> 42, completion |-> 10]

\* a chunk with one choice and an empty delta
Chunk0 ==
    [id |-> "c1", choices |-> TRUE, index |-> 0,
     hasContent |-> FALSE, content |-> <<>>,
     rkey |-> "none", rtext |-> <<>>,
     thinking |-> "none", thinkingText |-> <<>>,
     tools |-> <<>>, finish |-> "nil", usage |-> NoUsage]

ToolCall(ix, id, name, args) ==
    [index |-> ix, id |-> id, name |-> name, args |-> args]

\* lines the backend can send
LineOther == [kind |-> "other", chunk |-> Chunk0]
LineBad == [kind |-> "bad", chunk |-> Chunk0]
DataLine(c) == [kind |-> "chunk", chunk |-> c]

BackendChunks ==
    { Chunk0,
      [Chunk0 EXCEPT !.hasContent = TRUE, !.content = <<"t">>],
      [Chunk0 EXCEPT !.hasContent = TRUE],
      [Chunk0 EXCEPT !.tools = <<ToolCall(0, "call/1", "f", <<>>)>>],
      [Chunk0 EXCEPT !.tools = <<ToolCall(0, "", "", <<"a">>)>>],
      [Chunk0 EXCEPT !.finish = "stop"],
      [Chunk0 EXCEPT !.finish = "tool_calls", !.usage = SomeUsage],
      [Chunk0 EXCEPT !.choices = FALSE, !.usage = SomeUsage],
      [Chunk0 EXCEPT !.rkey = "reasoning_content", !.rtext = <<"r">>],
      [Chunk0 EXCEPT !.rkey = "reasoning", !.rtext = <<"r">>] }

BackendLines == {LineOther, LineBad} \cup {DataLine(c) : c \in BackendChunks}

(***************************************************************************)
(* Transform chain: TransformContext, transformers, RunStreamChunk         *)
(***************************************************************************)
\* tool_calls[].index values, and a missing key of ctx.ToolCallBuffers
ToolIndices == {0, 1}
NoBuffer == [set |-> FALSE, ID |-> "", Name |-> "", Arguments |-> <<>>]

\* NewTransformContext
NewTransformContext ==
    [ReasoningContent |-> <<>>, ReasoningComplete |-> FALSE,
     HasTextContent |-> FALSE, ExitToolIndex |-> -1, ExitToolArgs |-> <<>>,
     HasCallLog |-> FALSE, CallLog |-> <<>>,
     ToolCallBuffers |-> [i \in ToolIndices |-> NoBuffer]]

\* names the registry resolves for the chains configured here
TransformNames == {"reasoning", "openrouter", "enhancetool", "tooluse"}

\* the constructor registered under a name (RegisterTransform in each init)
NewTransformer(name) ==
    [name |-> name, hasToolCall |-> FALSE, state |-> "searching", tagBuffer |-> <<>>]

TResult(out, inst, ctx) == [out |-> out, inst |-> inst, ctx |-> ctx, err |-> ""]

\* (nil, err)
TError(inst, ctx, err) == [out |-> <<>>, inst |-> inst, ctx |-> ctx, err |-> err]

\* reasoningTransform.TransformStreamChunk
\* (variant: the boundary is emitted again at every content delta that comes
\* after reasoning)
ReasoningStreamChunk_EveryTime(inst, ctx, c) ==
    IF ~c.choices THEN TResult(<<c>>, inst, ctx)
    ELSE IF c.rkey = "reasoning_content"
    THEN TResult(<<[c EXCEPT !.thinking = "content", !.thinkingText = c.rtext,
                             !.rkey = "none", !.rtext = <<>>]>>,
                 inst,
                 [ctx EXCEPT !.ReasoningContent = @ \o c.rtext])
    ELSE IF c.hasContent
    THEN IF Len(ctx.ReasoningContent) > 0
         THEN TResult(<<[Chunk0 EXCEPT !.id = "", !.index = -1,
                                        !.thinking = "signature"],
                        [c EXCEPT !.index = IF c.index >= 0 THEN c.index + 1 ELSE c.index]>>,
                      inst,
                      [ctx EXCEPT !.ReasoningComplete = TRUE, !.HasTextContent = TRUE])
         ELSE TResult(<<c>>, inst, [ctx EXCEPT !.HasTextContent = TRUE])
    ELSE TResult(<<c>>, inst, ctx)

\* reasoningTransform.TransformStreamChunk
ReasoningStreamChunk(inst, ctx, c) ==
    IF ~c.choices THEN TResult(<<c>>, inst, ctx)
    ELSE IF c.rkey = "reasoning_content"
    THEN TResult(<<[c EXCEPT !.thinking = "content", !.thinkingText = c.rtext,
                             !.rkey = "none", !.rtext = <<>>]>>,
                 inst,
                 [ctx EXCEPT !.ReasoningContent = @ \o c.rtext])
    ELSE IF c.hasContent
    THEN IF Len(ctx.ReasoningContent) > 0 /\ ~ctx.ReasoningComplete
         THEN TResult(<<[Chunk0 EXCEPT !.id = "", !.index = -1,
                                        !.thinking = "signature"],
                        [c EXCEPT !.index = IF c.index >= 0 THEN c.index + 1 ELSE c.index]>>,
                      inst,
                      [ctx EXCEPT !.ReasoningComplete = TRUE, !.HasTextContent = TRUE])
         ELSE TResult(<<c>>, inst, [ctx EXCEPT !.HasTextContent = TRUE])
    ELSE TResult(<<c>>, inst, ctx)

\* strconv.Atoi succeeds on the id
IsNumericID(id) == id \in {"0", "1", "7"}

\* fixNumericToolID
FixNumericToolID(tc) ==
    IF IsNumericID(tc.id) THEN [tc EXCEPT !.id = "call_hex"] ELSE tc

\* openRouterTransform.TransformStreamChunk
OpenRouterStreamChunk(inst, ctx, c) ==
    IF ~c.choices THEN TResult(<<c>>, inst, ctx)
    ELSE
    LET hasTools == Len(c.tools) > 0
        inst1 == IF hasTools THEN [inst EXCEPT !.hasToolCall = TRUE] ELSE inst
        c1 == IF hasTools
              THEN [c EXCEPT !.tools = [i \in 1..Len(c.tools) |-> FixNumericToolID(c.tools[i])],
                             !.index = IF ctx.HasTextContent /\ c.index >= 0
                                       THEN c.index + 1 ELSE c.index]
              ELSE c
        c2 == IF c1.rkey = "reasoning"
              THEN [c1 EXCEPT !.rkey = "reasoning_content"] ELSE c1
        c3 == IF c2.usage.present /\ c2.finish # "nil" /\ inst1.hasToolCall
                 /\ c2.finish # "tool_calls"
              THEN [c2 EXCEPT !.finish = "tool_calls"] ELSE c2
    IN TResult(<<c3>>, inst1, ctx)

\* the mockTransformers of the chain tests: "a" has no function fields set,
\* "b" has a streamChunkFn that expands a chunk into two, "c" one that
\* suppresses the first of such a pair
MockNames == {"a", "b", "c"}

\* what a mockTransformer appends to *ctx.CallLog; the chunk is what the
\* recorder closure of the expansion test keeps in `seen`
LogCall(ctx, name, op, c) ==
    IF ctx.HasCallLog
    THEN [ctx EXCEPT !.CallLog = Append(@, [name |-> name, op |-> op, chunk |-> c])]
    ELSE ctx

\* the streamChunkFn of a mockTransformer (the default returns the chunk)
mockStreamChunkFn(name, c) ==
    IF name = "b"
    THEN <<[c EXCEPT !.hasContent = TRUE, !.content = @ \o <<"L">>],
           [c EXCEPT !.hasContent = TRUE, !.content = @ \o <<"R">>]>>
    ELSE IF name = "c" /\ c.content # <<>> /\ c.content[Len(c.content)] = "L"
    THEN <<>>
    ELSE <<c>>

\* mockTransformer.TransformStreamChunk
mockTransformStreamChunk(inst, ctx, c) ==
    IF inst.name = "fail"
    THEN \* the streamChunkFn of TestTransformChainStreamError
         TError(inst, LogCall(ctx, inst.name, "stream", c), "stream transform failed")
    ELSE TResult(mockStreamChunkFn(inst.name, c), inst,
                 LogCall(ctx, inst.name, "stream", c))

\* mockTransformer.TransformRequest: logs, no requestFn, the request is untouched
mockTransformRequest(inst, ctx, req) ==
    [req |-> req, err |-> "", ctx |-> LogCall(ctx, inst.name, "req", Chunk0)]

\* mockTransformer.TransformResponse: logs, no responseFn, the body is returned
mockTransformResponse(inst, ctx, body) ==
    [body |-> body, err |-> "", ctx |-> LogCall(ctx, inst.name, "resp", Chunk0)]

\* tool-call arguments are texts over these tokens: "{" "kv" "," "}"
\* json.Valid on such a text
JSONValid(t) ==
    t \in {<<"{", "}">>, <<"{", "kv", "}">>, <<"{", "kv", ",", "kv", "}">>}

\* relaxedFix: a comma right before a closing brace is dropped
RECURSIVE relaxedFix(_)
relaxedFix(t) ==
    IF t = <<>> THEN <<>>
    ELSE IF Len(t) >= 2 /\ t[1] = "," /\ t[2] = "}" THEN relaxedFix(Tail(t))
    ELSE <<Head(t)>> \o relaxedFix(Tail(t))

\* closeBrackets: one closing brace for every brace left open
RECURSIVE closeBrackets(_, _)
closeBrackets(t, open) ==
    IF t = <<>> THEN [i \in 1..open |-> "}"]
    ELSE <<Head(t)>> \o closeBrackets(Tail(t),
                                      IF Head(t) = "{" THEN open + 1
                                      ELSE IF Head(t) = "}" /\ open > 0 THEN open - 1
                                      ELSE open)

\* FixJSON: valid as is, after the relaxed fixups, after closing brackets, or "{}"
FixJSON(t) ==
    IF t = <<>> THEN <<"{", "}">>
    ELSE IF JSONValid(t) THEN t
    ELSE IF JSONValid(relaxedFix(t)) THEN relaxedFix(t)
    ELSE IF JSONValid(closeBrackets(relaxedFix(t), 0)) THEN closeBrackets(relaxedFix(t), 0)
    ELSE <<"{", "}">>

\* (variant: the buffered arguments are emitted as they came)
flushBuffers_Unrepaired(ctx) ==
    LET held == SelectSeq(<<0, 1>>, LAMBDA i : ctx.ToolCallBuffers[i].set)
    IN [chunk |-> [Chunk0 EXCEPT
                     !.id = "",
                     !.tools = [k \in 1..Len(held) |->
                                  ToolCall(held[k], ctx.ToolCallBuffers[held[k]].ID,
                                           ctx.ToolCallBuffers[held[k]].Name,
                                           ctx.ToolCallBuffers[held[k]].Arguments)]],
        ctx |-> [ctx EXCEPT !.ToolCallBuffers = [i \in ToolIndices |-> NoBuffer]]]

\* enhancetoolTransform.flushBuffers: one chunk with every buffered call,
\* indices ascending, arguments repaired; the buffers are cleared
flushBuffers(ctx) ==
    LET held == SelectSeq(<<0, 1>>, LAMBDA i : ctx.ToolCallBuffers[i].set)
    IN [chunk |-> [Chunk0 EXCEPT
                     !.id = "",
                     !.tools = [k \in 1..Len(held) |->
                                  ToolCall(held[k], ctx.ToolCallBuffers[held[k]].ID,
                                           ctx.ToolCallBuffers[held[k]].Name,
                                           FixJSON(ctx.ToolCallBuffers[held[k]].Arguments))]],
        ctx |-> [ctx EXCEPT !.ToolCallBuffers = [i \in ToolIndices |-> NoBuffer]]]

\* enhancetoolTransform.TransformStreamChunk
\* (variant: a fragment for an index without a buffer starts a buffer)
EnhancetoolStreamChunk_BuffersOrphans(inst, ctx, c) ==
    IF ~c.choices THEN TResult(<<c>>, inst, ctx)
    ELSE IF c.finish = "tool_calls"
    THEN IF \A i \in ToolIndices : ~ctx.ToolCallBuffers[i].set
         THEN TResult(<<c>>, inst, ctx)
         ELSE TResult(<<flushBuffers(ctx).chunk, c>>, inst, flushBuffers(ctx).ctx)
    ELSE IF c.tools = <<>> THEN TResult(<<c>>, inst, ctx)
    ELSE LET tc == c.tools[1]
         IN IF tc.id # ""
            THEN \* a new call: buffer it, pass the chunk on with arguments cleared
                 TResult(<<[c EXCEPT !.tools[1].args = <<>>]>>, inst,
                         [ctx EXCEPT !.ToolCallBuffers[tc.index] =
                             [set |-> TRUE, ID |-> tc.id, Name |-> tc.name,
                              Arguments |-> <<>>]])
            ELSE IF tc.args # <<>>
            THEN IF ~ctx.ToolCallBuffers[tc.index].set
                 THEN TResult(<<>>, inst,
                              [ctx EXCEPT !.ToolCallBuffers[tc.index] =
                                  [set |-> TRUE, ID |-> "", Name |-> "",
                                   Arguments |-> tc.args]])
                 ELSE LET grown == [ctx EXCEPT !.ToolCallBuffers[tc.index].Arguments =
                                                  @ \o tc.args]
                      IN IF Len(grown.ToolCallBuffers[tc.index].Arguments)
                              > maxToolCallBufferSize
                         THEN TResult(<<flushBuffers(grown).chunk>>, inst,
                                      flushBuffers(grown).ctx)
                         ELSE TResult(<<>>, inst, grown)
            ELSE TResult(<<c>>, inst, ctx)

\* enhancetoolTransform.TransformStreamChunk
EnhancetoolStreamChunk(inst, ctx, c) ==
    IF ~c.choices THEN TResult(<<c>>, inst, ctx)
    ELSE IF c.finish = "tool_calls"
    THEN IF \A i \in ToolIndices : ~ctx.ToolCallBuffers[i].set
         THEN TResult(<<c>>, inst, ctx)
         ELSE TResult(<<flushBuffers(ctx).chunk, c>>, inst, flushBuffers(ctx).ctx)
    ELSE IF c.tools = <<>> THEN TResult(<<c>>, inst, ctx)
    ELSE LET tc == c.tools[1]
         IN IF tc.id # ""
            THEN \* a new call: buffer it, pass the chunk on with arguments cleared
                 TResult(<<[c EXCEPT !.tools[1].args = <<>>]>>, inst,
                         [ctx EXCEPT !.ToolCallBuffers[tc.index] =
                             [set |-> TRUE, ID |-> tc.id, Name |-> tc.name,
                              Arguments |-> <<>>]])
            ELSE IF tc.args # <<>>
            THEN IF ~ctx.ToolCallBuffers[tc.index].set
                 THEN TResult(<<c>>, inst, ctx)
                 ELSE LET grown == [ctx EXCEPT !.ToolCallBuffers[tc.index].Arguments =
                                                  @ \o tc.args]
                      IN IF Len(grown.ToolCallBuffers[tc.index].Arguments)
                              > maxToolCallBufferSize
                         THEN TResult(<<flushBuffers(grown).chunk>>, inst,
                                      flushBuffers(grown).ctx)
                         ELSE TResult(<<>>, inst, grown)
            ELSE TResult(<<c>>, inst, ctx)

\* ---- thinkTagTransform and forceReasoningTransform ----
\* content is text over characters; what follows the "<" of a tag is one
\* character of the model, so "<think>" is the two characters "<", "think>"
openTag(name) ==
    IF name = "extrathinktag" THEN <<"<", "think>">>
    ELSE <<"<", "reasoning_content>">>

closeTag(name) ==
    IF name = "extrathinktag" THEN <<"<", "/think>">>
    ELSE <<"<", "/reasoning_content>">>

\* strings.Index: 1-based position of the first occurrence, 0 when absent
Index(s, sub) ==
    LET at == {i \in 1..(Len(s) - Len(sub) + 1) : SubSeq(s, i, i + Len(sub) - 1) = sub}
    IN IF at = {} THEN 0 ELSE CHOOSE i \in at : \A j \in at : i <= j

HasSuffix(s, suffix) ==
    Len(s) >= Len(suffix) /\ SubSeq(s, Len(s) - Len(suffix) + 1, Len(s)) = suffix

\* partialOpenTag / partialTag: the first proper prefix of the tag, shortest
\* first, that s ends with
partialTag(s, tag) ==
    LET fit == {i \in 1..(Len(tag) - 1) : HasSuffix(s, SubSeq(tag, 1, i))}
    IN IF fit = {} THEN <<>>
       ELSE SubSeq(tag, 1, CHOOSE i \in fit : \A j \in fit : i <= j)

\* strings.TrimSpace
RECURSIVE TrimSpace(_)
TrimSpace(s) ==
    IF s # <<>> /\ Head(s) = " " THEN TrimSpace(Tail(s))
    ELSE IF s # <<>> /\ s[Len(s)] = " " THEN TrimSpace(SubSeq(s, 1, Len(s) - 1))
    ELSE s

\* the chunk marshalled with delta.thinking.content set and delta.content deleted
ThinkingChunk(c, text) ==
    [c EXCEPT !.hasContent = FALSE, !.content = <<>>,
              !.thinking = "content", !.thinkingText = text]

\* the thinking-close chunk: delta.thinking.signature only
ThinkingCloseChunk == [Chunk0 EXCEPT !.id = "", !.index = -1, !.thinking = "signature"]

\* appendThinkingChunks
appendThinkingChunks(chunks, content, inst, ctx, c) ==
    LET closeIdx == Index(content, closeTag(inst.name))
    IN IF closeIdx > 0
       THEN LET thinking == SubSeq(content, 1, closeIdx - 1)
                after == TrimSpace(SubSeq(content, closeIdx + Len(closeTag(inst.name)),
                                          Len(content)))
            IN TResult(chunks
                         \o (IF thinking # <<>> THEN <<ThinkingChunk(c, thinking)>> ELSE <<>>)
                         \o <<ThinkingCloseChunk>>
                         \o (IF after # <<>>
                             THEN <<[c EXCEPT !.hasContent = TRUE, !.content = after,
                                              !.index = IF c.index >= 0 THEN c.index + 1
                                                        ELSE c.index]>>
                             ELSE <<>>),
                       [inst EXCEPT !.state = "final"],
                       IF after # <<>> THEN [ctx EXCEPT !.HasTextContent = TRUE] ELSE ctx)
       ELSE \* no close tag: all of it is thinking
            TResult(Append(chunks, ThinkingChunk(c, content)), inst, ctx)

\* handleSearching
handleSearching(content, inst, ctx, c) ==
    LET openIdx == Index(content, openTag(inst.name))
        partial == partialTag(content, openTag(inst.name))
    IN IF openIdx > 0
       THEN LET before == SubSeq(content, 1, openIdx - 1)
                after == SubSeq(content, openIdx + Len(openTag(inst.name)), Len(content))
                chunks == IF before # <<>> THEN <<[c EXCEPT !.content = before]>> ELSE <<>>
                ctx1 == IF before # <<>> THEN [ctx EXCEPT !.HasTextContent = TRUE] ELSE ctx
                inst1 == [inst EXCEPT !.state = "thinking"]
            IN IF after # <<>>
               THEN appendThinkingChunks(chunks, after, inst1, ctx1, c)
               ELSE TResult(chunks, inst1, ctx1)
       ELSE IF partial # <<>>
       THEN LET rest == SubSeq(content, 1, Len(content) - Len(partial))
            IN IF rest = <<>>
               THEN TResult(<<>>, [inst EXCEPT !.tagBuffer = partial], ctx)
               ELSE TResult(<<[c EXCEPT !.content = rest]>>,
                            [inst EXCEPT !.tagBuffer = partial],
                            [ctx EXCEPT !.HasTextContent = TRUE])
       ELSE TResult(<<[c EXCEPT !.content = content]>>, inst,
                    [ctx EXCEPT !.HasTextContent = TRUE])

\* handleFinal
handleFinal(content, inst, ctx, c) ==
    TResult(<<[c EXCEPT !.content = content]>>, inst, [ctx EXCEPT !.HasTextContent = TRUE])

\* thinkTagTransform.TransformStreamChunk, forceReasoningTransform.TransformStreamChunk
ThinkTagStreamChunk(inst, ctx, c) ==
    IF ~c.choices \/ ~c.hasContent THEN TResult(<<c>>, inst, ctx)
    ELSE LET content == inst.tagBuffer \o c.content
             inst0 == [inst EXCEPT !.tagBuffer = <<>>]
         IN IF inst.state = "searching" THEN handleSearching(content, inst0, ctx, c)
            ELSE IF inst.state = "thinking"
            THEN appendThinkingChunks(<<>>, content, inst0, ctx, c)
            ELSE handleFinal(content, inst0, ctx, c)

\* ---- toolUseTransform ----
\* the arguments of an ExitTool call are texts over "{" "resp" "kv" "," "}",
\* "resp" being the pair "response": "answer" and "kv" any other pair
\* json.Unmarshal of such a text into a map succeeds
UnmarshalsToMap(t) ==
    /\ Len(t) >= 2
    /\ t[1] = "{"
    /\ t[Len(t)] = "}"
    /\ Len(t) = 2 \/ Len(t) % 2 = 1
    /\ \A i \in 2..(Len(t) - 1) :
          IF i % 2 = 0 THEN t[i] \in {"resp", "kv"} ELSE t[i] = ","

\* args["response"].(string) of the unmarshalled arguments, "" otherwise
ExitResponse(t) ==
    IF UnmarshalsToMap(t) /\ \E i \in 1..Len(t) : t[i] = "resp"
    THEN <<"answer">> ELSE <<>>

\* the content chunk emitted in place of the finish chunk
ExitChunk(content) ==
    [Chunk0 EXCEPT !.id = "", !.index = -1, !.hasContent = TRUE,
                   !.content = content, !.finish = "stop"]

\* (variant: the finish chunk follows the synthetic content chunk)
ToolUseStreamChunk_KeepsFinish(inst, ctx, c) ==
    IF ~c.choices THEN TResult(<<c>>, inst, ctx)
    ELSE IF c.finish # "nil" /\ ctx.ExitToolIndex >= 0
    THEN TResult(<<ExitChunk(ExitResponse(ctx.ExitToolArgs)), c>>, inst, ctx)
    ELSE IF c.tools = <<>> THEN TResult(<<c>>, inst, ctx)
    ELSE LET tc == c.tools[1]
         IN IF tc.name = "ExitTool"
            THEN TResult(<<>>, inst, [ctx EXCEPT !.ExitToolIndex = tc.index])
            ELSE IF ctx.ExitToolIndex >= 0 /\ tc.index = ctx.ExitToolIndex
            THEN TResult(<<>>, inst, [ctx EXCEPT !.ExitToolArgs = @ \o tc.args])
            ELSE TResult(<<c>>, inst, ctx)

\* toolUseTransform.TransformStreamChunk
ToolUseStreamChunk(inst, ctx, c) ==
    IF ~c.choices THEN TResult(<<c>>, inst, ctx)
    ELSE IF c.finish # "nil" /\ ctx.ExitToolIndex >= 0
    THEN TResult(<<ExitChunk(ExitResponse(ctx.ExitToolArgs))>>, inst, ctx)
    ELSE IF c.tools = <<>> THEN TResult(<<c>>, inst, ctx)
    ELSE LET tc == c.tools[1]
         IN IF tc.name = "ExitTool"
            THEN \* the call is ExitTool: remember its index, suppress the chunk
                 TResult(<<>>, inst, [ctx EXCEPT !.ExitToolIndex = tc.index])
            ELSE IF ctx.ExitToolIndex >= 0 /\ tc.index = ctx.ExitToolIndex
            THEN TResult(<<>>, inst, [ctx EXCEPT !.ExitToolArgs = @ \o tc.args])
            ELSE TResult(<<c>>, inst, ctx)

\* Transformer.TransformStreamChunk, dispatched on the concrete type (the
\* think-tag transformers are called directly, not through a chain)
TransformStreamChunk(inst, ctx, c) ==
    IF inst.name = "reasoning" THEN ReasoningStreamChunk(inst, ctx, c)
    ELSE IF inst.name = "openrouter" THEN OpenRouterStreamChunk(inst, ctx, c)
    ELSE IF inst.name = "enhancetool" THEN EnhancetoolStreamChunk(inst, ctx, c)
    ELSE IF inst.name = "tooluse" THEN ToolUseStreamChunk(inst, ctx, c)
    ELSE mockTransformStreamChunk(inst, ctx, c)

\* TransformChain.RunRequest: forward order, stops on the first error
RECURSIVE RunRequest(_, _, _, _, _)
RunRequest(ts, i, heap, ctx, req) ==
    IF i > Len(ts) THEN [req |-> req, err |-> "", ctx |-> ctx]
    ELSE LET r == mockTransformRequest(heap[ts[i]], ctx, req)
         IN IF r.err # "" THEN r
            ELSE RunRequest(ts, i + 1, heap, r.ctx, r.req)

\* TransformChain.RunResponse as it would be with the loop running forward
RECURSIVE RunResponse_Forward(_, _, _, _, _)
RunResponse_Forward(ts, i, heap, ctx, body) ==
    IF i < 1 THEN [body |-> body, err |-> "", ctx |-> ctx]
    ELSE LET r == mockTransformResponse(heap[ts[Len(ts) + 1 - i]], ctx, body)
         IN IF r.err # "" THEN [r EXCEPT !.body = ""]
            ELSE RunResponse_Forward(ts, i - 1, heap, r.ctx, r.body)

\* TransformChain.RunResponse: reverse order, stops on the first error
RECURSIVE RunResponse(_, _, _, _, _)
RunResponse(ts, i, heap, ctx, body) ==
    IF i < 1 THEN [body |-> body, err |-> "", ctx |-> ctx]
    ELSE LET r == mockTransformResponse(heap[ts[i]], ctx, body)
         IN IF r.err # "" THEN [r EXCEPT !.body = ""]
            ELSE RunResponse(ts, i - 1, heap, r.ctx, r.body)

\* the inner loop as it would be with `next = result` in place of
\* `next = append(next, result...)`
RECURSIVE RunLayer_KeepsLast(_, _, _, _)
RunLayer_KeepsLast(inst, ctx, chunks, acc) ==
    IF chunks = <<>> THEN TResult(acc, inst, ctx)
    ELSE LET r == TransformStreamChunk(inst, ctx, Head(chunks))
         IN IF r.err # "" THEN r
            ELSE RunLayer_KeepsLast(r.inst, r.ctx, Tail(chunks), r.out)

\* inner loop of RunStreamChunk: one transformer over all chunks of a layer
RECURSIVE RunLayer(_, _, _, _)
RunLayer(inst, ctx, chunks, acc) ==
    IF chunks = <<>> THEN TResult(acc, inst, ctx)
    ELSE LET r == TransformStreamChunk(inst, ctx, Head(chunks))
         IN IF r.err # "" THEN r
            ELSE RunLayer(r.inst, r.ctx, Tail(chunks), acc \o r.out)

\* TransformChain.RunStreamChunk: transformers in reverse order; `ts` are
\* the chain's transformer objects (heap ids), `heap` the objects' state
RECURSIVE RunStreamChunk(_, _, _, _, _)
RunStreamChunk(ts, i, heap, ctx, chunks) ==
    IF i < 1 THEN [chunks |-> chunks, heap |-> heap, ctx |-> ctx, err |-> ""]
    ELSE LET r == RunLayer(heap[ts[i]], ctx, chunks, <<>>)
         IN IF r.err # ""
            THEN [chunks |-> <<>>, heap |-> [heap EXCEPT ![ts[i]] = r.inst],
                  ctx |-> r.ctx, err |-> r.err]
            ELSE RunStreamChunk(ts, i - 1, [heap EXCEPT ![ts[i]] = r.inst], r.ctx, r.out)

(***************************************************************************)
(* StreamTranslator (translate/stream.go)                                  *)
(***************************************************************************)
Event(type, index, kind, id, name, text, tokens) ==
    [type |-> type, index |-> index, kind |-> kind, id |-> id,
     name |-> name, text |-> text, tokens |-> tokens]

\* NewStreamTranslator
NewStreamTranslator ==
    [msgID |-> "msg_stream", blockIndex |-> 0, inTextBlock |-> FALSE,
     inToolBlock |-> FALSE, started |-> FALSE, finishReason |-> "",
     usage |-> NoUsage, toolCalls |-> {}, consecutiveDrops |-> 0,
     w |-> <<>>]

emitEvent(st, e) == [st EXCEPT !.w = Append(@, e)]

\* sanitizeToolID: every character outside [a-zA-Z0-9_-] becomes "_"
sanitizeToolID(id) ==
    IF id = "call/1" THEN "call_1" ELSE id

\* mapFinishReason
mapFinishReason(fr) ==
    IF fr = "stop" THEN "end_turn"
    ELSE IF fr = "tool_calls" THEN "tool_use"
    ELSE IF fr = "length" THEN "max_tokens"
    ELSE "end_turn"

closeCurrentBlock(st) ==
    IF st.inTextBlock \/ st.inToolBlock
    THEN [emitEvent(st, Event("content_block_stop", st.blockIndex, "", "", "", <<>>, 0))
            EXCEPT !.blockIndex = @ + 1, !.inTextBlock = FALSE, !.inToolBlock = FALSE]
    ELSE st

emitMessageStart(st) ==
    emitEvent(st, Event("message_start", 0, "", st.msgID, "", <<>>,
                        IF st.usage.present THEN st.usage.prompt ELSE 0))

emitContentBlockStart(st, blockType, id, name) ==
    emitEvent(st, Event("content_block_start", st.blockIndex, blockType, id, name, <<>>, 0))

emitTextDelta(st, text) ==
    emitEvent(st, Event("content_block_delta", st.blockIndex, "text_delta", "", "", text, 0))

emitInputJSONDelta(st, partial) ==
    emitEvent(st, Event("content_block_delta", st.blockIndex, "input_json_delta", "", "", partial, 0))

emitMessageDelta(st) ==
    emitEvent(st, Event("message_delta", 0, mapFinishReason(st.finishReason), "", "", <<>>,
                        IF st.usage.present THEN st.usage.completion ELSE 0))

\* the tool-call loop of processChunk (lines 206-219)
RECURSIVE processToolCalls(_, _)
processToolCalls(st, tcs) ==
    IF tcs = <<>> THEN st
    ELSE LET tc == Head(tcs)
             s1 == IF tc.id # ""
                   THEN [emitContentBlockStart(
                            closeCurrentBlock(
                                [st EXCEPT !.toolCalls = @ \cup {tc.index}]),
                            "tool_use", sanitizeToolID(tc.id), tc.name)
                         EXCEPT !.inToolBlock = TRUE]
                   ELSE st
             s2 == IF tc.args # <<>> THEN emitInputJSONDelta(s1, tc.args) ELSE s1
         IN processToolCalls(s2, Tail(tcs))

\* StreamTranslator.processChunk
\* (variant: an empty content string is handled like any other)
processChunk_OpensOnEmpty(st, c) ==
    LET s1 == IF ~st.started /\ c.id # "" THEN [st EXCEPT !.msgID = "msg_" \o c.id] ELSE st
        s2 == IF c.usage.present THEN [s1 EXCEPT !.usage = c.usage] ELSE s1
    IN IF ~c.choices THEN s2
       ELSE
       LET s3 == IF ~s2.started THEN emitMessageStart([s2 EXCEPT !.started = TRUE]) ELSE s2
           s4 == IF c.finish # "nil" THEN [s3 EXCEPT !.finishReason = c.finish] ELSE s3
           s5 == IF c.hasContent
                 THEN emitTextDelta(
                        IF ~s4.inTextBlock
                        THEN [emitContentBlockStart(closeCurrentBlock(s4), "text", "", "")
                                EXCEPT !.inTextBlock = TRUE]
                        ELSE s4,
                        c.content)
                 ELSE s4
       IN processToolCalls(s5, c.tools)

\* StreamTranslator.processChunk
processChunk(st, c) ==
    LET s1 == IF ~st.started /\ c.id # "" THEN [st EXCEPT !.msgID = "msg_" \o c.id] ELSE st
        s2 == IF c.usage.present THEN [s1 EXCEPT !.usage = c.usage] ELSE s1
    IN IF ~c.choices THEN s2
       ELSE
       LET s3 == IF ~s2.started THEN emitMessageStart([s2 EXCEPT !.started = TRUE]) ELSE s2
           s4 == IF c.finish # "nil" THEN [s3 EXCEPT !.finishReason = c.finish] ELSE s3
           s5 == IF c.hasContent /\ c.content # <<>>
                 THEN emitTextDelta(
                        IF ~s4.inTextBlock
                        THEN [emitContentBlockStart(closeCurrentBlock(s4), "text", "", "")
                                EXCEPT !.inTextBlock = TRUE]
                        ELSE s4,
                        c.content)
                 ELSE s4
       IN processToolCalls(s5, c.tools)


(***************************************************************************)
(* TranslateStream, stepwise, and the streaming branch of forwardLocal     *)
(***************************************************************************)
Requests == 1..NumRequests

ChainConfigs == {<<>>, <<"reasoning">>, <<"reasoning", "openrouter">>,
                 <<"openrouter", "reasoning">>, <<"reasoning", "nonexistent">>}

\* processChunk over the transformed chunks (lines 137-148)
RECURSIVE processTransformed(_, _)
processTransformed(s, chunks) ==
    IF chunks = <<>> THEN s
    ELSE processTransformed(
            processChunk([s EXCEPT !.consecutiveDrops = 0], Head(chunks)),
            Tail(chunks))

\* thinking text carried by the chunks given to processChunk
RECURSIVE ThinkingText(_)
ThinkingText(chunks) ==
    IF chunks = <<>> THEN <<>>
    ELSE (IF Head(chunks).thinking = "content" THEN Head(chunks).thinkingText ELSE <<>>)
            \o ThinkingText(Tail(chunks))

\* one iteration of the scanner loop of TranslateStream (lines 97-153)
\* (variant: the second consecutive unparseable line already aborts)
ScanStep_AbortsAtTwo(s, ch, hp, cx, line) ==
    IF line.kind = "other"
    THEN [st |-> s, heap |-> hp, ctxs |-> cx, err |-> "", given |-> <<>>,
          chainErr |-> FALSE]
    ELSE IF line.kind = "bad"
    THEN [st |-> [s EXCEPT !.consecutiveDrops = @ + 1], heap |-> hp, ctxs |-> cx,
          err |-> IF s.consecutiveDrops + 1 >= 2 THEN "unparseable" ELSE "",
          given |-> <<>>, chainErr |-> FALSE]
    ELSE IF ch.set
    THEN LET r == RunStreamChunk(ch.ts, Len(ch.ts), hp, cx[ch.ctx], <<line.chunk>>)
             \* line 120, then line 126
             dropped == [[s EXCEPT !.consecutiveDrops = 0]
                            EXCEPT !.consecutiveDrops = @ + 1]
         IN IF r.err # ""
            THEN [st |-> dropped,
                  heap |-> r.heap, ctxs |-> [cx EXCEPT ![ch.ctx] = r.ctx],
                  err |-> IF dropped.consecutiveDrops >= 3 THEN "transform errors" ELSE "",
                  given |-> <<>>, chainErr |-> TRUE]
            ELSE [st |-> processTransformed([s EXCEPT !.consecutiveDrops = 0], r.chunks),
                  heap |-> r.heap, ctxs |-> [cx EXCEPT ![ch.ctx] = r.ctx],
                  err |-> "", given |-> r.chunks, chainErr |-> FALSE]
    ELSE [st |-> processChunk([s EXCEPT !.consecutiveDrops = 0], line.chunk),
          heap |-> hp, ctxs |-> cx, err |-> "", given |-> <<line.chunk>>,
          chainErr |-> FALSE]

ScanStep(s, ch, hp, cx, line) ==
    IF line.kind = "other"
    THEN [st |-> s, heap |-> hp, ctxs |-> cx, err |-> "", given |-> <<>>,
          chainErr |-> FALSE]
    ELSE IF line.kind = "bad"
    THEN [st |-> [s EXCEPT !.consecutiveDrops = @ + 1], heap |-> hp, ctxs |-> cx,
          err |-> IF s.consecutiveDrops + 1 >= 3 THEN "unparseable" ELSE "",
          given |-> <<>>, chainErr |-> FALSE]
    ELSE IF ch.set
    THEN LET r == RunStreamChunk(ch.ts, Len(ch.ts), hp, cx[ch.ctx], <<line.chunk>>)
             \* line 120, then line 126
             dropped == [[s EXCEPT !.consecutiveDrops = 0]
                            EXCEPT !.consecutiveDrops = @ + 1]
         IN IF r.err # ""
            THEN [st |-> dropped,
                  heap |-> r.heap, ctxs |-> [cx EXCEPT ![ch.ctx] = r.ctx],
                  err |-> IF dropped.consecutiveDrops >= 3 THEN "transform errors" ELSE "",
                  given |-> <<>>, chainErr |-> TRUE]
            ELSE [st |-> processTransformed([s EXCEPT !.consecutiveDrops = 0], r.chunks),
                  heap |-> r.heap, ctxs |-> [cx EXCEPT ![ch.ctx] = r.ctx],
                  err |-> "", given |-> r.chunks, chainErr |-> FALSE]
    ELSE [st |-> processChunk([s EXCEPT !.consecutiveDrops = 0], line.chunk),
          heap |-> hp, ctxs |-> cx, err |-> "", given |-> <<line.chunk>>,
          chainErr |-> FALSE]

\* after the loop (lines 155-162): close the block, message_delta, message_stop
FinishStream(s) ==
    emitEvent(emitMessageDelta(closeCurrentBlock(s)),
              Event("message_stop", 0, "", "", "", <<>>, 0))

\* FormatStreamError: an error event followed by message_stop
FormatStreamError(errType, message) ==
    << Event("error", 0, errType, "", "", <<message>>, 0),
       Event("message_stop", 0, "", "", "", <<>>, 0) >>

\* FormatError: the Anthropic error JSON body
FormatError(errType, message) ==
    << Event("error", 0, errType, "", "", <<message>>, 0) >>

NoResponse == [status |-> 0, ctype |-> "", close |-> FALSE, body |-> <<>>]

\* sendAnthropicError
sendAnthropicError(httpStatus, body) ==
    [status |-> httpStatus, ctype |-> "application/json", close |-> TRUE, body |-> body]

\* forwardLocal as it would be if a failed translation discarded the events
\* already buffered and sent only the error
StreamResponse_DropsProduced(sseBody, streamErr) ==
    IF streamErr # ""
    THEN [status |-> 200, ctype |-> "text/event-stream", close |-> FALSE,
          body |-> FormatStreamError("api_error", streamErr)]
    ELSE [status |-> 200, ctype |-> "text/event-stream", close |-> FALSE,
          body |-> sseBody]

\* the streaming branch of forwardLocal once TranslateStream has returned
\* (lines 553-567)
StreamResponse(sseBody, streamErr) ==
    IF streamErr # "" /\ Len(sseBody) = 0
    THEN sendAnthropicError(502, FormatError("api_error", streamErr))
    ELSE [status |-> 200, ctype |-> "text/event-stream", close |-> FALSE,
          body |-> IF streamErr # ""
                   THEN sseBody \o FormatStreamError("api_error", streamErr)
                   ELSE sseBody]

\* BuildChain as it would be if the registry kept one instance per name and
\* handed it to every chain
RECURSIVE BuildChain_SharedInstances(_, _)
BuildChain_SharedInstances(names, hp) ==
    IF names = <<>> THEN [ts |-> <<>>, heap |-> hp, err |-> ""]
    ELSE LET existing == {i \in 1..Len(hp) : hp[i].name = Head(names)}
             hp1 == IF existing = {} THEN Append(hp, NewTransformer(Head(names))) ELSE hp
             id == IF existing = {} THEN Len(hp) + 1 ELSE CHOOSE i \in existing : TRUE
             rest == BuildChain_SharedInstances(Tail(names), hp1)
         IN [ts |-> <<id>> \o rest.ts, heap |-> rest.heap, err |-> ""]

\* BuildChain as it would be if a name missing from the registry were skipped
RECURSIVE BuildChain_SkipsUnknown(_, _)
BuildChain_SkipsUnknown(names, hp) ==
    IF names = <<>> THEN [ts |-> <<>>, heap |-> hp, err |-> ""]
    ELSE IF Head(names) \notin TransformNames
    THEN BuildChain_SkipsUnknown(Tail(names), hp)
    ELSE LET rest == BuildChain_SkipsUnknown(Tail(names),
                                             Append(hp, NewTransformer(Head(names))))
         IN [ts |-> <<Len(hp) + 1>> \o rest.ts, heap |-> rest.heap, err |-> ""]

\* BuildChain: one constructor call per name, appended to the heap; a name
\* missing from the registry makes it return (nil, error), and the objects
\* built for the names before it are dropped with the slice
RECURSIVE BuildChain(_, _)
BuildChain(names, hp) ==
    IF names = <<>> THEN [ts |-> <<>>, heap |-> hp, err |-> ""]
    ELSE IF Head(names) \notin TransformNames
    THEN [ts |-> <<>>, heap |-> hp, err |-> "unknown transform"]
    ELSE LET rest == BuildChain(Tail(names), Append(hp, NewTransformer(Head(names))))
         IN IF rest.err # "" THEN [ts |-> <<>>, heap |-> hp, err |-> rest.err]
            ELSE [ts |-> <<Len(hp) + 1>> \o rest.ts, heap |-> rest.heap, err |-> ""]

\* forwardLocal up to the call of TranslateStream: the chain and the context
\* are built for this request, the backend answered 200 to a streaming request
StartStream(r, names) ==
    /\ spc[r] = "new"
    /\ LET b == BuildChain(names, objects)
       IN /\ objects' = b.heap
          /\ ctxs' = Append(ctxs, NewTransformContext)
          \* on error chain = NewTransformChain(): no transformer
          /\ chain' = [chain EXCEPT ![r] = [set |-> TRUE,
                                            ts |-> IF b.err # "" THEN <<>> ELSE b.ts,
                                            ctx |-> Len(ctxs) + 1,
                                            configured |-> names]]
    /\ translators' = [translators EXCEPT ![r] = NewStreamTranslator]
    /\ spc' = [spc EXCEPT ![r] = "scan"]
    /\ UNCHANGED <<budget, fed, failed, serr, wire>>
    /\ UNCHANGED notStream

\* the scanner delivers one line and the loop body runs on it
ScanLine(r, line) ==
    /\ spc[r] = "scan"
    /\ budget[r] > 0
    /\ \E res \in {ScanStep(translators[r], chain[r], objects, ctxs, line)} :
          /\ translators' = [translators EXCEPT ![r] = res.st]
          /\ objects' = res.heap
          /\ ctxs' = res.ctxs
          /\ fed' = [fed EXCEPT ![r] = @ \o ThinkingText(res.given)]
          /\ failed' = [failed EXCEPT ![r] = IF res.chainErr THEN @ + 1
                                             ELSE IF line.kind = "other" THEN @
                                             ELSE 0]
          /\ serr' = [serr EXCEPT ![r] = res.err]
          /\ spc' = [spc EXCEPT ![r] = IF res.err # "" THEN "returned" ELSE "scan"]
    /\ budget' = [budget EXCEPT ![r] = @ - 1]
    /\ UNCHANGED <<chain, wire>>
    /\ UNCHANGED notStream

\* the stream ends normally: a [DONE] line or end of input
ScanDone(r) ==
    /\ spc[r] = "scan"
    /\ translators' = [translators EXCEPT ![r] = FinishStream(@)]
    /\ serr' = [serr EXCEPT ![r] = ""]
    /\ spc' = [spc EXCEPT ![r] = "returned"]
    /\ UNCHANGED <<budget, chain, objects, ctxs, fed, failed, wire>>
    /\ UNCHANGED notStream

\* the scanner stops on a read error or an over-long line: the closing
\* events are still written and scanner.Err() is returned (line 164)
ScanFails(r) ==
    /\ spc[r] = "scan"
    /\ translators' = [translators EXCEPT ![r] = FinishStream(@)]
    /\ serr' = [serr EXCEPT ![r] = "scanner"]
    /\ spc' = [spc EXCEPT ![r] = "returned"]
    /\ UNCHANGED <<budget, chain, objects, ctxs, fed, failed, wire>>
    /\ UNCHANGED notStream

\* forwardLocal writes the response
SendStream(r) ==
    /\ spc[r] = "returned"
    /\ wire' = [wire EXCEPT ![r] = StreamResponse(translators[r].w, serr[r])]
    /\ spc' = [spc EXCEPT ![r] = "sent"]
    /\ UNCHANGED <<budget, translators, chain, objects, ctxs, fed, failed, serr>>
    /\ UNCHANGED notStream

StreamInitCommon ==
    /\ translators = [r \in Requests |-> NewStreamTranslator]
    /\ chain = [r \in Requests |-> [set |-> FALSE, ts |-> <<>>, ctx |-> 0,
                                     configured |-> <<>>]]
    /\ objects = <<>>
    /\ ctxs = <<>>
    /\ fed = [r \in Requests |-> <<>>]
    /\ failed = [r \in Requests |-> 0]
    /\ serr = [r \in Requests |-> ""]
    /\ wire = [r \in Requests |-> NoResponse]

\* one routed streaming request
StreamInit ==
    /\ StreamInitCommon
    /\ spc = [r \in Requests |-> IF r = 1 THEN "new" ELSE "off"]
    /\ budget = [r \in Requests |-> IF r = 1 THEN MaxLines ELSE 0]

StreamNext ==
    \/ \E r \in Requests, names \in ChainConfigs : StartStream(r, names)
    \/ \E r \in Requests, line \in BackendLines : ScanLine(r, line)
    \/ \E r \in Requests : ScanDone(r)
    \/ \E r \in Requests : ScanFails(r)
    \/ \E r \in Requests : SendStream(r)

(***************************************************************************)
(* Request bodies and the route detector (proxy/route.go)                  *)
(***************************************************************************)
\* pieces of a string: the routing marker naming a model, whitespace, other text
Marker(m) == [tok |-> "marker", model |-> m]
Sp == [tok |-> "space", model |-> ""]
Txt == [tok |-> "text", model |-> ""]

\* values of the top-level "system" key
SysAbsent == [kind |-> "absent", text |-> <<>>, blocks |-> <<>>]
SysNull == [kind |-> "null", text |-> <<>>, blocks |-> <<>>]
SysString(t) == [kind |-> "string", text |-> t, blocks |-> <<>>]
SysArray(bs) == [kind |-> "array", text |-> <<>>, blocks |-> bs]
SysObject(t) == [kind |-> "object", text |-> t, blocks |-> <<>>]

\* an element of a system array: a JSON object or not, with a string "text" or not
Block(isMap, hasText, t) == [isMap |-> isMap, hasText |-> hasText, text |-> t]

\* a request body: `json` is how the bytes parse, `form` tells the client's own
\* bytes from a re-serialisation by json.Marshal, `elsewhere` says whether the
\* marker text occurs outside the system field (in messages, or in raw bytes)
Body(json, system, elsewhere, stream) ==
    [json |-> json, form |-> "client", system |-> system,
     elsewhere |-> elsewhere, stream |-> stream]

Bodies ==
    { Body("empty", SysAbsent, FALSE, FALSE),
      Body("invalid", SysAbsent, TRUE, FALSE),
      Body("object", SysAbsent, TRUE, FALSE),
      Body("object", SysNull, FALSE, FALSE),
      Body("object", SysString(<<Txt>>), TRUE, TRUE),
      Body("object", SysString(<<Txt, Sp, Marker("m1")>>), FALSE, FALSE),
      Body("object", SysString(<<Marker("m1"), Sp, Txt>>), FALSE, TRUE),
      Body("object", SysString(<<Marker("m2"), Sp, Marker("m1")>>), FALSE, FALSE),
      Body("object", SysString(<<Marker("m3")>>), FALSE, FALSE),
      Body("object", SysObject(<<Marker("m1")>>), FALSE, FALSE),
      Body("object", SysArray(<<Block(TRUE, TRUE, <<Txt>>)>>), TRUE, FALSE),
      Body("object", SysArray(<<Block(FALSE, FALSE, <<>>),
                                Block(TRUE, FALSE, <<Marker("m1")>>),
                                Block(TRUE, TRUE, <<Txt>>),
                                Block(TRUE, TRUE, <<Sp, Marker("m1"), Sp>>),
                                Block(TRUE, TRUE, <<Marker("m2")>>)>>), FALSE, TRUE) }

\* routeMarkerRE.FindStringSubmatch: position of the first marker, 0 when none
FirstMarker(t) ==
    IF \E i \in 1..Len(t) : t[i].tok = "marker"
    THEN CHOOSE i \in 1..Len(t) :
            /\ t[i].tok = "marker"
            /\ \A j \in 1..(i - 1) : t[j].tok # "marker"
    ELSE 0

\* routeMarkerRE.ReplaceAllString(s, ""): every marker is removed
RECURSIVE ReplaceAllMarkers(_)
ReplaceAllMarkers(t) ==
    IF t = <<>> THEN <<>>
    ELSE (IF Head(t).tok = "marker" THEN <<>> ELSE <<Head(t)>>)
            \o ReplaceAllMarkers(Tail(t))

\* trimSpace: leading and trailing whitespace is cut
RECURSIVE trimSpace(_)
trimSpace(t) ==
    IF t # <<>> /\ Head(t).tok = "space" THEN trimSpace(Tail(t))
    ELSE IF t # <<>> /\ t[Len(t)].tok = "space" THEN trimSpace(SubSeq(t, 1, Len(t) - 1))
    ELSE t

\* the loop over the blocks as it would be if the last marked block won
FirstMarkedBlock_Last(bs, i) ==
    LET marked == {k \in i..Len(bs) :
                      bs[k].isMap /\ bs[k].hasText
                      /\ \E n \in 1..Len(bs[k].text) : bs[k].text[n].tok = "marker"}
    IN IF marked = {} THEN 0 ELSE CHOOSE k \in marked : \A m \in marked : m <= k

\* the loop over the blocks of a system array (lines 260-275): index of the
\* first block that is an object with a string text holding the marker
RECURSIVE FirstMarkedBlock(_, _)
FirstMarkedBlock(bs, i) ==
    IF i > Len(bs) THEN 0
    ELSE IF bs[i].isMap /\ bs[i].hasText /\ FirstMarker(bs[i].text) # 0 THEN i
    ELSE FirstMarkedBlock(bs, i + 1)

\* the detector as it would be if it gave back a re-serialisation of the
\* parsed body when it finds no marker
Passthrough_Reserialised(body) ==
    [model |-> "",
     body |-> IF body.json = "object" THEN [body EXCEPT !.form = "marshalled"] ELSE body]

\* return "", body: no route, the body as it came
Passthrough(body) == [model |-> "", body |-> body]

\* detectLocalRoute
detectLocalRoute(body) ==
    IF body.json = "empty" THEN Passthrough(body)
    ELSE IF body.json # "object" THEN Passthrough(body)
    ELSE IF body.system.kind \in {"absent", "null"} THEN Passthrough(body)
    ELSE IF body.system.kind = "string"
    THEN IF FirstMarker(body.system.text) # 0
         THEN [model |-> body.system.text[FirstMarker(body.system.text)].model,
               body |-> [body EXCEPT
                            !.form = "marshalled",
                            !.system.text = trimSpace(ReplaceAllMarkers(@))]]
         ELSE Passthrough(body)
    ELSE IF body.system.kind = "array"
    THEN LET i == FirstMarkedBlock(body.system.blocks, 1)
         IN IF i # 0
            THEN [model |-> body.system.blocks[i].text[FirstMarker(body.system.blocks[i].text)].model,
                  body |-> [body EXCEPT
                               !.form = "marshalled",
                               !.system.blocks[i].text = trimSpace(ReplaceAllMarkers(@))]]
            ELSE Passthrough(body)
    ELSE Passthrough(body)

(***************************************************************************)
(* Proxy: ServeHTTP, handleTunnel, forwardUpstream, forwardLocal           *)
(***************************************************************************)
\* capacity of the tunnel semaphore (config.MaxProxyGoroutines, env-tunable)
MaxProxyGoroutines == 2
\* requests the client of the first connection sends through its tunnel
MaxTunnelRequests == 2

\* one client connection more than the semaphore admits
Conns == 1..(MaxProxyGoroutines + 1)

\* a request as the tunnel reads it: protocol version, Connection header,
\* how reading the body ends, and the body
Request(proto, conn, size, body) ==
    [proto |-> proto, conn |-> conn, size |-> size, body |-> body]

NoBody == Body("empty", SysAbsent, FALSE, FALSE)
NoRequest == Request("", "", "none", NoBody)
NoRoute == [to |-> "none", model |-> "", body |-> NoBody]

\* bodies sent with the other protocol versions and Connection headers: one
\* that is relayed, two that are routed
CloseBodies ==
    { Body("object", SysAbsent, TRUE, FALSE),
      Body("object", SysString(<<Txt, Sp, Marker("m1")>>), FALSE, FALSE),
      Body("object", SysString(<<Marker("m1"), Sp, Txt>>), FALSE, TRUE) }

ClientRequests ==
    {Request("1.1", "", "fits", b) : b \in Bodies}
    \cup {Request("1.1", "close", "fits", b) : b \in CloseBodies}
    \cup {Request("1.0", k, "fits", b) : k \in {"", "keep-alive"}, b \in CloseBodies}
    \cup {Request("1.1", "", s, NoBody) : s \in {"over", "err"}}
    \cup {Request("1.1", "", "over",
                  Body("object", SysString(<<Marker("m1"), Sp, Txt>>), FALSE, TRUE))}

\* req.Close as http.ReadRequest sets it: a Connection: close header, or an
\* HTTP/1.0 request without Connection: keep-alive
ReqClose(req) ==
    \/ req.conn = "close"
    \/ req.proto = "1.0" /\ req.conn # "keep-alive"

\* ServeHTTP as it would be without the semaphore
TryAcquire_Always(s) == TRUE

\* the select on p.sem with a default case: the send succeeds when the
\* channel has room
TryAcquire(s) == s < MaxProxyGoroutines

\* the body read of handleTunnel as it would be without the size test
BodyCheck_NoLimit(req) == IF req.size = "err" THEN 400 ELSE 0

\* the body read of handleTunnel (lines 303-312): the status it answers
\* with, 0 when the body was read whole and is within MaxBodyBytes
BodyCheck(req) ==
    IF req.size = "err" THEN 400
    ELSE IF req.size = "over" THEN 413
    ELSE 0

\* sendError: a plain-text error answer with Connection: close
sendError(code) ==
    [status |-> code, ctype |-> "", close |-> TRUE, body |-> <<>>]

\* labels the model resolver knows (ModelResolver.Resolve)
KnownLabels == {"m1", "m3"}

\* what the backend exchange of forwardLocal can run into
LocalOutcomes ==
    {"ok", "reqtranslate", "reqtransform", "newrequest", "unreachable", "http_error",
     "readerr", "resptranslate", "abort_empty", "abort_mid", "scanerr"}

\* outcomes that belong to the streaming and to the non-streaming branch
OutcomeApplies(body, o) ==
    IF body.stream THEN o \notin {"readerr", "resptranslate"}
    ELSE o \notin {"abort_empty", "abort_mid", "scanerr"}

TextChunk == [Chunk0 EXCEPT !.hasContent = TRUE, !.content = <<"t">>]

\* TranslateStream on some backend streams: what it wrote and what it returned
TranslateStreamRun(o) ==
    IF o = "abort_empty" THEN [w |-> <<>>, err |-> "unparseable"]
    ELSE IF o = "abort_mid"
    THEN [w |-> processChunk(NewStreamTranslator, TextChunk).w, err |-> "unparseable"]
    ELSE IF o = "scanerr"
    THEN [w |-> FinishStream(processChunk(NewStreamTranslator, TextChunk)).w,
          err |-> "scanner"]
    ELSE [w |-> FinishStream(processChunk(NewStreamTranslator, TextChunk)).w, err |-> ""]

\* sendLocalStub: writeSSEStub or writeJSONStub
sendLocalStub(streaming) ==
    IF streaming
    THEN [status |-> 200, ctype |-> "text/event-stream", close |-> FALSE,
          body |-> FinishStream(processChunk(NewStreamTranslator,
                                             [TextChunk EXCEPT !.id = "stub_local_route"])).w]
    ELSE [status |-> 200, ctype |-> "application/json", close |-> FALSE,
          body |-> <<Event("message", 0, "end_turn", "msg_stub_local_route", "", <<"t">>, 1)>>]

\* the headers the tests look at, "" where http.Header.Get finds none
Headers(ctype, auth, xkey, version, beta) ==
    [ContentType |-> ctype, Authorization |-> auth, XApiKey |-> xkey,
     AnthropicVersion |-> version, AnthropicBeta |-> beta]

\* what the client sends with every request of the tunnel
ClientHeaders ==
    Headers("application/json", "Bearer sk-ant-client", "sk-ant-client",
            "2023-06-01", "beta-1")

\* ResolvedModel.APIKey of a label: the provider of m3 has no api_key
ProviderKey(label) == IF label = "m3" THEN "" ELSE "provider-secret-key"

NoBackendRequest == [sent |-> FALSE, headers |-> Headers("", "", "", "", "")]

\* the local request as it would be if the client's request headers were
\* copied onto it before the provider's key is set (as forwardUpstream does)
LocalRequest_CopiesClientHeaders(key) ==
    [sent |-> TRUE,
     headers |-> [ClientHeaders EXCEPT
                    !.Authorization = IF key # "" THEN "Bearer " \o key ELSE @]]

\* the request forwardLocal builds for the provider (lines 511-523):
\* http.NewRequest and two Header.Set calls
LocalRequest(key) ==
    [sent |-> TRUE,
     headers |-> Headers("application/json",
                         IF key # "" THEN "Bearer " \o key ELSE "", "", "", "")]

\* forwardLocal gets as far as localClient.Do
ReachesBackend(res, label, o) ==
    /\ res
    /\ label \in KnownLabels
    /\ o \notin {"reqtranslate", "reqtransform", "newrequest"}

\* forwardLocal as it would be if a failed stream translation were only
\* logged and nothing written to the client
LocalResponse_SilentStreamError(res, label, body, o) ==
    IF ~res THEN sendLocalStub(body.stream)
    ELSE IF label \notin KnownLabels
    THEN sendAnthropicError(400, FormatError("invalid_request_error", "unknown label"))
    ELSE IF o \in {"reqtranslate", "reqtransform", "newrequest"}
    THEN sendAnthropicError(500, FormatError("api_error", o))
    ELSE IF o \in {"unreachable", "http_error"}
    THEN sendAnthropicError(502, FormatError("api_error", o))
    ELSE IF body.stream
    THEN IF TranslateStreamRun(o).err # "" THEN NoResponse
         ELSE StreamResponse(TranslateStreamRun(o).w, TranslateStreamRun(o).err)
    ELSE IF o \in {"readerr", "resptranslate"}
    THEN sendAnthropicError(502, FormatError("api_error", o))
    ELSE [status |-> 200, ctype |-> "application/json", close |-> FALSE,
          body |-> <<Event("message", 0, "end_turn", "msg_c1", "", <<"t">>, 10)>>]

\* forwardLocal: what it writes to the tunnel
LocalResponse(res, label, body, o) ==
    IF ~res THEN sendLocalStub(body.stream)
    ELSE IF label \notin KnownLabels
    THEN sendAnthropicError(400, FormatError("invalid_request_error", "unknown label"))
    ELSE IF o \in {"reqtranslate", "reqtransform", "newrequest"}
    THEN sendAnthropicError(500, FormatError("api_error", o))
    ELSE IF o \in {"unreachable", "http_error"}
    THEN sendAnthropicError(502, FormatError("api_error", o))
    ELSE IF body.stream
    THEN StreamResponse(TranslateStreamRun(o).w, TranslateStreamRun(o).err)
    ELSE IF o \in {"readerr", "resptranslate"}
    THEN sendAnthropicError(502, FormatError("api_error", o))
    ELSE [status |-> 200, ctype |-> "application/json", close |-> FALSE,
          body |-> <<Event("message", 0, "end_turn", "msg_c1", "", <<"t">>, 10)>>]

UpstreamOutcomes ==
    {"ok_length", "ok_buffered", "newrequest", "do_error", "copy_error", "read_error",
     "too_large"}

\* the upstream's own response, relayed
Relayed(whole) ==
    [status |-> 200, ctype |-> "upstream", close |-> FALSE,
     body |-> IF whole THEN <<"whole">> ELSE <<"truncated">>]

\* forwardUpstream as it would be if it reported success after a failed
\* upstream call
forwardUpstream_IgnoresFailure(o) ==
    IF o \in {"newrequest", "do_error", "too_large"}
    THEN [ok |-> TRUE, written |-> TRUE, resp |-> sendError(502)]
    ELSE IF o = "copy_error" THEN [ok |-> FALSE, written |-> FALSE, resp |-> Relayed(FALSE)]
    ELSE IF o = "read_error" THEN [ok |-> FALSE, written |-> FALSE, resp |-> NoResponse]
    ELSE [ok |-> TRUE, written |-> TRUE, resp |-> Relayed(TRUE)]

\* forwardUpstream: its return value, whether a whole response was written,
\* and the response
forwardUpstream(o) ==
    IF o \in {"newrequest", "do_error", "too_large"}
    THEN [ok |-> FALSE, written |-> TRUE, resp |-> sendError(502)]
    ELSE IF o = "copy_error" THEN [ok |-> FALSE, written |-> FALSE, resp |-> Relayed(FALSE)]
    ELSE IF o = "read_error" THEN [ok |-> FALSE, written |-> FALSE, resp |-> NoResponse]
    ELSE [ok |-> TRUE, written |-> TRUE, resp |-> Relayed(TRUE)]

\* a whole response reached the client
Written(r) == IF r.status # 0 THEN 1 ELSE 0

\* ServeHTTP up to the semaphore: method check, target check, non-blocking acquire
ServeHTTP(c, method, targetOK) ==
    /\ ppc[c] = "idle"
    /\ IF method # "CONNECT"
       THEN /\ reply' = [reply EXCEPT ![c] = 405]
            /\ ppc' = [ppc EXCEPT ![c] = "refused"]
            /\ UNCHANGED sem
       ELSE IF ~targetOK
       THEN /\ reply' = [reply EXCEPT ![c] = 400]
            /\ ppc' = [ppc EXCEPT ![c] = "refused"]
            /\ UNCHANGED sem
       ELSE IF TryAcquire(sem)
       THEN /\ sem' = sem + 1
            /\ ppc' = [ppc EXCEPT ![c] = "admitted"]
            /\ UNCHANGED reply
       ELSE /\ reply' = [reply EXCEPT ![c] = 503]
            /\ ppc' = [ppc EXCEPT ![c] = "refused"]
            /\ UNCHANGED sem
    /\ UNCHANGED <<resolver, backend, reqBudget, cur, route, resp, nread, nresp>>
    /\ UNCHANGED notProxy

HandshakeOutcomes == {"ok", "no_hijacker", "hijack_error", "cert_error", "tls_error"}

\* ServeHTTP from the hijack to the call of handleTunnel (lines 261-290); on
\* every early return the deferred receive frees the slot
\* (variant: the slot is not freed when the TLS handshake fails)
Handshake_KeepsSlotOnTLSError(c, o) ==
    /\ ppc[c] = "admitted"
    /\ reply' = [reply EXCEPT ![c] = IF o = "no_hijacker" THEN 500
                                     ELSE IF o = "hijack_error" THEN 0
                                     ELSE 200]
    /\ IF o = "ok"
       THEN /\ ppc' = [ppc EXCEPT ![c] = "tunnel"]
            /\ UNCHANGED sem
       ELSE /\ ppc' = [ppc EXCEPT ![c] = "done"]
            /\ sem' = IF o = "tls_error" THEN sem ELSE sem - 1
    /\ UNCHANGED <<resolver, backend, reqBudget, cur, route, resp, nread, nresp>>
    /\ UNCHANGED notProxy

\* ServeHTTP from the hijack to the call of handleTunnel (lines 261-290); on
\* every early return the deferred receive frees the slot
Handshake(c, o) ==
    /\ ppc[c] = "admitted"
    /\ reply' = [reply EXCEPT ![c] = IF o = "no_hijacker" THEN 500
                                     ELSE IF o = "hijack_error" THEN 0
                                     ELSE 200]
    /\ IF o = "ok"
       THEN /\ ppc' = [ppc EXCEPT ![c] = "tunnel"]
            /\ UNCHANGED sem
       ELSE /\ ppc' = [ppc EXCEPT ![c] = "done"]
            /\ sem' = sem - 1
    /\ UNCHANGED <<resolver, backend, reqBudget, cur, route, resp, nread, nresp>>
    /\ UNCHANGED notProxy

\* http.ReadRequest fails (the client closed, or the deadline passed):
\* handleTunnel returns and the slot is freed
ReadFails(c) ==
    /\ ppc[c] = "tunnel"
    /\ ppc' = [ppc EXCEPT ![c] = "done"]
    /\ sem' = sem - 1
    /\ UNCHANGED <<resolver, backend, reply, reqBudget, cur, route, resp, nread,
                   nresp>>
    /\ UNCHANGED notProxy

\* the loop body of handleTunnel up to the forwarding call (lines 298-317)
ReadRequest(c, req) ==
    /\ ppc[c] = "tunnel"
    /\ reqBudget[c] > 0
    /\ reqBudget' = [reqBudget EXCEPT ![c] = @ - 1]
    /\ nread' = [nread EXCEPT ![c] = @ + 1]
    /\ cur' = [cur EXCEPT ![c] = req]
    /\ IF BodyCheck(req) # 0
       THEN /\ resp' = [resp EXCEPT ![c] = sendError(BodyCheck(req))]
            /\ nresp' = [nresp EXCEPT ![c] = @ + 1]
            /\ route' = [route EXCEPT ![c] = NoRoute]
            /\ ppc' = [ppc EXCEPT ![c] = "done"]
            /\ sem' = sem - 1
       ELSE /\ LET d == detectLocalRoute(req.body)
               IN route' = [route EXCEPT ![c] =
                               [to |-> IF d.model # "" THEN "local" ELSE "upstream",
                                model |-> d.model, body |-> d.body]]
            /\ resp' = [resp EXCEPT ![c] = NoResponse]
            /\ ppc' = [ppc EXCEPT ![c] = "forward"]
            /\ UNCHANGED <<sem, nresp>>
    /\ backend' = [backend EXCEPT ![c] = NoBackendRequest]
    /\ UNCHANGED <<resolver, reply>>
    /\ UNCHANGED notProxy

\* the rest of the loop body for a routed request: forwardLocal, then the
\* req.Close test (lines 327, 334-336)
ForwardLocal(c, o) ==
    /\ ppc[c] = "forward"
    /\ route[c].to = "local"
    /\ OutcomeApplies(route[c].body, o)
    /\ LET r == LocalResponse(resolver, route[c].model, route[c].body, o)
       IN /\ resp' = [resp EXCEPT ![c] = r]
          /\ nresp' = [nresp EXCEPT ![c] = @ + Written(r)]
    /\ backend' = [backend EXCEPT ![c] =
                      IF ReachesBackend(resolver, route[c].model, o)
                      THEN LocalRequest(ProviderKey(route[c].model))
                      ELSE NoBackendRequest]
    /\ IF ReqClose(cur[c])
       THEN /\ ppc' = [ppc EXCEPT ![c] = "done"]
            /\ sem' = sem - 1
       ELSE /\ ppc' = [ppc EXCEPT ![c] = "tunnel"]
            /\ UNCHANGED sem
    /\ cur' = [cur EXCEPT ![c].body = NoBody]
    /\ route' = [route EXCEPT ![c] = NoRoute]
    /\ UNCHANGED <<resolver, reply, reqBudget, nread>>
    /\ UNCHANGED notProxy

\* the rest of the loop body for a relayed request: forwardUpstream with the
\* body as read, return on failure, then the req.Close test (lines 329-336)
ForwardUpstream(c, o) ==
    /\ ppc[c] = "forward"
    /\ route[c].to = "upstream"
    /\ LET u == forwardUpstream(o)
       IN /\ resp' = [resp EXCEPT ![c] = u.resp]
          /\ nresp' = [nresp EXCEPT ![c] = @ + (IF u.written THEN 1 ELSE 0)]
          /\ IF ~u.ok \/ ReqClose(cur[c])
             THEN /\ ppc' = [ppc EXCEPT ![c] = "done"]
                  /\ sem' = sem - 1
             ELSE /\ ppc' = [ppc EXCEPT ![c] = "tunnel"]
                  /\ UNCHANGED sem
    /\ cur' = [cur EXCEPT ![c].body = NoBody]
    /\ route' = [route EXCEPT ![c] = NoRoute]
    /\ UNCHANGED <<resolver, backend, reply, reqBudget, nread>>
    /\ UNCHANGED notProxy

ProxyInitCommon ==
    /\ sem = 0
    /\ ppc = [c \in Conns |-> "idle"]
    /\ reply = [c \in Conns |-> 0]
    /\ reqBudget = [c \in Conns |-> IF c = 1 THEN MaxTunnelRequests ELSE 0]
    /\ cur = [c \in Conns |-> NoRequest]
    /\ route = [c \in Conns |-> NoRoute]
    /\ resp = [c \in Conns |-> NoResponse]
    /\ nread = [c \in Conns |-> 0]
    /\ nresp = [c \in Conns |-> 0]
    /\ backend = [c \in Conns |-> NoBackendRequest]

\* a proxy built with a model resolver
ProxyInit == ProxyInitCommon /\ resolver = TRUE

\* a proxy built with or without a model resolver
ProxyInitAny == ProxyInitCommon /\ resolver \in BOOLEAN

ProxyNext ==
    \/ \E c \in Conns, m \in {"CONNECT", "GET"}, t \in BOOLEAN : ServeHTTP(c, m, t)
    \/ \E c \in Conns, o \in HandshakeOutcomes : Handshake(c, o)
    \/ \E c \in Conns : ReadFails(c)
    \/ \E c \in Conns, req \in ClientRequests : ReadRequest(c, req)
    \/ \E c \in Conns, o \in LocalOutcomes : ForwardLocal(c, o)
    \/ \E c \in Conns, o \in UpstreamOutcomes : ForwardUpstream(c, o)

\* two routed streaming requests in flight together
StreamIsoInit ==
    /\ StreamInitCommon
    /\ spc = [r \in Requests |-> IF r <= 2 THEN "new" ELSE "off"]
    /\ budget = [r \in Requests |-> IF r = 1 THEN IsoMaxLines ELSE IF r = 2 THEN 1 ELSE 0]

(***************************************************************************)
(* A TransformChain of mockTransformers, run operation by operation        *)
(***************************************************************************)
\* chains of up to MaxChain distinct mockTransformers
RECURSIVE MockChains(_)
MockChains(n) ==
    IF n = 0 THEN {<<>>}
    ELSE LET shorter == MockChains(n - 1)
         IN shorter \cup {Append(ch, m) : ch \in {x \in shorter : Len(x) = n - 1},
                                          m \in MockNames}

DistinctChains ==
    {ch \in MockChains(MaxChain) : \A i, j \in 1..Len(ch) : i # j => ch[i] # ch[j]}

\* the backend chunk sent at position n of a stream
ChunkIds == <<"k1", "k2", "k3", "k4", "k5">>
BackendChunk(n) == [Chunk0 EXCEPT !.id = ChunkIds[n]]

NoRun == [op |-> "", names |-> <<>>, chunk |-> Chunk0, data |-> "",
          out |-> <<>>, result |-> "", err |-> "", log |-> <<>>]

\* NewTransformChain(transformers...) and a context whose CallLog is set
NewTransformChain(names) ==
    /\ tpc = "new"
    /\ tpc' = "ready"
    /\ tchain' = [i \in 1..Len(names) |-> NewTransformer(names[i])]
    /\ tctx' = [NewTransformContext EXCEPT !.HasCallLog = TRUE]
    /\ UNCHANGED <<tlast, tfed, tstream, truns>>
    /\ UNCHANGED notChain

ChainNames == [i \in 1..Len(tchain) |-> tchain[i].name]
ChainIds == [i \in 1..Len(tchain) |-> i]

\* chain.RunRequest(req, ctx) with a fresh call log
CallRunRequest(req) ==
    /\ tpc = "ready" /\ truns > 0
    /\ LET r == RunRequest(ChainIds, 1, tchain, [tctx EXCEPT !.CallLog = <<>>], req)
       IN /\ tctx' = r.ctx
          /\ tlast' = [NoRun EXCEPT !.op = "req", !.names = ChainNames, !.data = req,
                                    !.result = r.req, !.err = r.err,
                                    !.log = r.ctx.CallLog]
    /\ truns' = truns - 1
    /\ UNCHANGED <<tpc, tchain, tfed, tstream>>
    /\ UNCHANGED notChain

\* chain.RunResponse(body, ctx) with a fresh call log
CallRunResponse(body) ==
    /\ tpc = "ready" /\ truns > 0
    /\ LET r == RunResponse(ChainIds, Len(tchain), tchain,
                            [tctx EXCEPT !.CallLog = <<>>], body)
       IN /\ tctx' = r.ctx
          /\ tlast' = [NoRun EXCEPT !.op = "resp", !.names = ChainNames, !.data = body,
                                    !.result = r.body, !.err = r.err,
                                    !.log = r.ctx.CallLog]
    /\ truns' = truns - 1
    /\ UNCHANGED <<tpc, tchain, tfed, tstream>>
    /\ UNCHANGED notChain

\* chain.RunStreamChunk(chunk, ctx) on the next chunk of the backend's
\* stream, with a fresh call log
CallRunStreamChunk ==
    /\ tpc = "ready" /\ truns > 0
    /\ LET c == BackendChunk(tfed + 1)
           r == RunStreamChunk(ChainIds, Len(tchain), tchain,
                               [tctx EXCEPT !.CallLog = <<>>], <<c>>)
       IN /\ tctx' = r.ctx
          /\ tchain' = r.heap
          /\ tlast' = [NoRun EXCEPT !.op = "stream", !.names = ChainNames, !.chunk = c,
                                    !.out = r.chunks, !.err = r.err,
                                    !.log = r.ctx.CallLog]
          /\ tstream' = tstream \o r.chunks
    /\ tfed' = tfed + 1
    /\ truns' = truns - 1
    /\ UNCHANGED tpc
    /\ UNCHANGED notChain

ChainInit ==
    /\ tpc = "new"
    /\ tchain = <<>>
    /\ tctx = NewTransformContext
    /\ tlast = NoRun
    /\ tfed = 0
    /\ tstream = <<>>
    /\ truns = MaxRuns

ChainNext ==
    \/ \E names \in DistinctChains : NewTransformChain(names)
    \/ \E req \in {"q1", "q2"} : CallRunRequest(req)
    \/ \E body \in {"b1", "b2"} : CallRunResponse(body)
    \/ CallRunStreamChunk

(***************************************************************************)
(* A think-tag transformer fed the content of a stream chunk by chunk      *)
(***************************************************************************)
ThinkNames == {"extrathinktag", "forcereasoning"}

\* characters a backend may stream to the transformer of this name
Alphabet(name) == {"<", "a", " ", openTag(name)[2], closeTag(name)[2]}

\* texts of exactly n characters
RECURSIVE Texts(_, _)
Texts(name, n) ==
    IF n = 0 THEN {<<>>}
    ELSE {Append(t, ch) : t \in Texts(name, n - 1), ch \in Alphabet(name)}

\* the delta.content of one chunk
Pieces(name) == UNION {Texts(name, n) : n \in 1..MaxPiece}
\* the chunk that completes an open tag split after its first character:
\* the rest of the tag, the enclosed text, the closing tag, the text after it
TagCompletions(name) ==
    {<<openTag(name)[2]>> \o enc \o closeTag(name) \o post :
        enc \in {<<>>, <<"a">>},
        post \in {<<>>, <<"a">>, <<" ", "a">>, <<"a", " ">>}}

AllPieces == UNION {Pieces(name) \cup TagCompletions(name) : name \in ThinkNames}

ContentChunk(piece) == [Chunk0 EXCEPT !.hasContent = TRUE, !.content = piece]

\* newThinkTagTransform / newForceReasoningTransform, NewTransformContext
NewThinkTransform(name) ==
    /\ fpc = "new"
    /\ fpc' = "ready"
    /\ ftr' = NewTransformer(name)
    /\ fctx' = NewTransformContext
    /\ UNCHANGED <<fgiven, fout>>
    /\ UNCHANGED notThink

\* TransformStreamChunk on the next content chunk of the stream
FeedContent(piece) ==
    /\ fpc = "ready"
    /\ \/ piece \in Pieces(ftr.name) /\ Len(fgiven) + Len(piece) <= MaxText
       \/ piece \in TagCompletions(ftr.name) /\ Len(fgiven) <= MaxPiece
    /\ LET r == ThinkTagStreamChunk(ftr, fctx, ContentChunk(piece))
       IN /\ ftr' = r.inst
          /\ fctx' = r.ctx
          /\ fout' = fout \o r.out
    /\ fgiven' = fgiven \o piece
    /\ UNCHANGED fpc
    /\ UNCHANGED notThink

ThinkInit ==
    /\ fpc = "new"
    /\ ftr = NewTransformer("extrathinktag")
    /\ fctx = NewTransformContext
    /\ fgiven = <<>>
    /\ fout = <<>>

ThinkNext ==
    \/ \E name \in ThinkNames : NewThinkTransform(name)
    \/ \E piece \in AllPieces : FeedContent(piece)

(***************************************************************************)
(* A routed streaming request whose backend streams tool calls through a   *)
(* chain with the enhancetool transform                                    *)
(***************************************************************************)
ToolChainConfigs == {<<"enhancetool">>, <<"reasoning", "enhancetool">>}

\* what such a backend sends: the start of a call (with empty arguments, or
\* already carrying the first piece of them), argument fragments, the
\* tool_calls finish chunk, another finish chunk, text, lines without data
ToolChunks ==
    { [Chunk0 EXCEPT !.tools = <<ToolCall(0, "call_1", "read", <<>>)>>],
      [Chunk0 EXCEPT !.tools = <<ToolCall(1, "call_2", "write", <<"{">>)>>],
      [Chunk0 EXCEPT !.tools = <<ToolCall(0, "", "", <<"{", "kv", ",">>)>>],
      [Chunk0 EXCEPT !.tools = <<ToolCall(0, "", "", <<"}">>)>>],
      [Chunk0 EXCEPT !.tools = <<ToolCall(1, "", "", <<"kv">>)>>],
      [Chunk0 EXCEPT !.hasContent = TRUE, !.content = <<"t">>],
      [Chunk0 EXCEPT !.finish = "tool_calls"],
      [Chunk0 EXCEPT !.finish = "stop"] }

ToolLines == {LineOther} \cup {DataLine(c) : c \in ToolChunks}

ToolNext ==
    \/ \E r \in Requests, names \in ToolChainConfigs : StartStream(r, names)
    \/ \E r \in Requests, line \in ToolLines : ScanLine(r, line)
    \/ \E r \in Requests : ScanDone(r)
    \/ \E r \in Requests : ScanFails(r)
    \/ \E r \in Requests : SendStream(r)

(***************************************************************************)
(* A routed streaming request whose backend may call ExitTool, through a   *)
(* chain with the tooluse transform                                        *)
(***************************************************************************)
ExitChainConfigs == {<<"tooluse">>}

\* what such a backend sends: the start of an ExitTool call (with empty
\* arguments, or already carrying the first piece of them), the start of
\* another call, argument fragments for both, text, finish chunks
ExitChunks ==
    { [Chunk0 EXCEPT !.tools = <<ToolCall(0, "call_9", "ExitTool", <<>>)>>],
      [Chunk0 EXCEPT !.tools = <<ToolCall(0, "call_9", "ExitTool", <<"{">>)>>],
      [Chunk0 EXCEPT !.tools = <<ToolCall(1, "call_2", "write", <<>>)>>],
      [Chunk0 EXCEPT !.tools = <<ToolCall(0, "", "", <<"{", "resp">>)>>],
      [Chunk0 EXCEPT !.tools = <<ToolCall(0, "", "", <<"}">>)>>],
      [Chunk0 EXCEPT !.tools = <<ToolCall(0, "", "", <<"{", "resp", "}">>)>>],
      [Chunk0 EXCEPT !.tools = <<ToolCall(1, "", "", <<"{", "kv", "}">>)>>],
      [Chunk0 EXCEPT !.hasContent = TRUE, !.content = <<"t">>],
      [Chunk0 EXCEPT !.finish = "tool_calls"],
      [Chunk0 EXCEPT !.finish = "stop", !.usage = SomeUsage] }

ExitLines == {LineOther} \cup {DataLine(c) : c \in ExitChunks}

ExitNext ==
    \/ \E r \in Requests, names \in ExitChainConfigs : StartStream(r, names)
    \/ \E r \in Requests, line \in ExitLines : ScanLine(r, line)
    \/ \E r \in Requests : ScanDone(r)
    \/ \E r \in Requests : ScanFails(r)
    \/ \E r \in Requests : SendStream(r)

(***************************************************************************)
(* A StreamTranslator given a chain by SetTransformChain, one transformer  *)
(* of which fails on every chunk it is handed                              *)
(***************************************************************************)
\* with enhancetool behind it the failing transformer is not handed the
\* fragments enhancetool holds back
FailChainConfigs == {<<"fail">>, <<"fail", "enhancetool">>}

FailLines == ToolLines \cup {LineBad}

\* NewStreamTranslator, then st.SetTransformChain(NewTransformChain(...),
\* NewTransformContext(...)): the transformers are built by the caller
SetTransformChain(r, names) ==
    /\ spc[r] = "new"
    /\ objects' = objects \o [i \in 1..Len(names) |-> NewTransformer(names[i])]
    /\ ctxs' = Append(ctxs, NewTransformContext)
    /\ chain' = [chain EXCEPT ![r] = [set |-> TRUE,
                                      ts |-> [i \in 1..Len(names) |-> Len(objects) + i],
                                      ctx |-> Len(ctxs) + 1,
                                      configured |-> names]]
    /\ translators' = [translators EXCEPT ![r] = NewStreamTranslator]
    /\ spc' = [spc EXCEPT ![r] = "scan"]
    /\ UNCHANGED <<budget, fed, failed, serr, wire>>
    /\ UNCHANGED notStream

FailNext ==
    \/ \E r \in Requests, names \in FailChainConfigs : SetTransformChain(r, names)
    \/ \E r \in Requests, line \in FailLines : ScanLine(r, line)
    \/ \E r \in Requests : ScanDone(r)
    \/ \E r \in Requests : ScanFails(r)
    \/ \E r \in Requests : SendStream(r)

vars == <<certVars, streamVars, proxyVars, chainVars, thinkVars>>

Init == CertInit /\ StreamInit /\ ProxyInit /\ ChainInit /\ ThinkInit

SpecChain == Init /\ [][ChainNext]_vars

SpecTool == Init /\ [][ToolNext]_vars

SpecThink == Init /\ [][ThinkNext]_vars

SpecExit == Init /\ [][ExitNext]_vars

SpecFail == Init /\ [][FailNext]_vars

SpecCert == Init /\ [][CertNext]_vars

SpecStream == Init /\ [][StreamNext]_vars

InitIso == CertInit /\ StreamIsoInit /\ ProxyInit /\ ChainInit /\ ThinkInit

SpecIso == InitIso /\ [][StreamNext]_vars

InitProxy == CertInit /\ StreamInit /\ ProxyInitAny /\ ChainInit /\ ThinkInit

SpecProxy == InitProxy /\ [][ProxyNext]_vars

\* C2: under any interleaving of GetTLSConfig calls the cache never holds
\* more than one non-expired entry for the same hostname.
C2_OneLiveEntryPerHost ==
    \A h \in Hosts :
        Cardinality({i \in 1..Len(order) :
                        order[i].hostname = h /\ NotExpired(order[i])}) <= 1

\* C3: all GetTLSConfig(h) calls made within the validity period of a
\* certificate return the same serial number, sequential or concurrent, as
\* long as h was not evicted for capacity in between.
C3_SameSerialWithinValidity ==
    \A h \in Hosts : \A r1, r2 \in issued[h] : r1.serial = r2.serial


(***************************************************************************)
(* Streaming claims                                                        *)
(***************************************************************************)
\* events i..j of w are content blocks: (start, delta*, stop)*
RECURSIVE BlocksWellFormed(_, _, _, _)
BlocksWellFormed(w, i, j, open) ==
    IF i > j THEN ~open
    ELSE IF w[i].type = "content_block_start"
    THEN ~open /\ BlocksWellFormed(w, i + 1, j, TRUE)
    ELSE IF w[i].type = "content_block_delta"
    THEN open /\ BlocksWellFormed(w, i + 1, j, TRUE)
    ELSE IF w[i].type = "content_block_stop"
    THEN open /\ BlocksWellFormed(w, i + 1, j, FALSE)
    ELSE FALSE

Lifecycle(w) ==
    /\ Len(w) >= 3
    /\ w[1].type = "message_start"
    /\ w[Len(w) - 1].type = "message_delta"
    /\ w[Len(w)].type = "message_stop"
    /\ BlocksWellFormed(w, 2, Len(w) - 2, FALSE)

EndedNormally(r) == spc[r] \in {"returned", "sent"} /\ serr[r] = ""

\* C1: for any backend line sequence that ends normally, the events written
\* are message_start, then (content_block_start, content_block_delta*,
\* content_block_stop)*, then message_delta, then message_stop.
C1_LifecycleOrder ==
    \A r \in Requests : EndedNormally(r) => Lifecycle(translators[r].w)

\* C8: when translation fails after events were produced, the client gets
\* those events unchanged, then an error event, then message_stop, as one
\* SSE response.
C8_MidStreamErrorAppended ==
    \A r \in Requests :
        (spc[r] = "sent" /\ serr[r] # "" /\ Len(translators[r].w) > 0)
        => LET w == translators[r].w
               b == wire[r].body
           IN /\ wire[r].status = 200
              /\ wire[r].ctype = "text/event-stream"
              /\ Len(b) = Len(w) + 2
              /\ SubSeq(b, 1, Len(w)) = w
              /\ b[Len(w) + 1].type = "error"
              /\ b[Len(w) + 2].type = "message_stop"

\* a chunk was translated, then three unparseable lines aborted the stream
C8_Witness ==
    \E r \in Requests :
        /\ spc[r] = "sent"
        /\ serr[r] = "unparseable"
        /\ Len(translators[r].w) > 0
        /\ wire[r].status = 200

\* C10: reasoning text turned into thinking deltas by the transforms reaches
\* the client as a thinking content block, separate from the answer text.
C10_ThinkingReachesClient ==
    \A r \in Requests :
        (spc[r] = "sent" /\ serr[r] = "" /\ fed[r] # <<>>)
        => \E i \in 1..Len(wire[r].body) :
              /\ wire[r].body[i].type = "content_block_start"
              /\ wire[r].body[i].kind = "thinking"

(***************************************************************************)
(* Proxy claims                                                            *)
(***************************************************************************)
\* tunnels that were admitted and have not finished
InFlight == {c \in Conns : ppc[c] \in {"admitted", "tunnel", "forward"}}

\* a step in which ServeHTTP takes up a CONNECT with a well-formed target on
\* connection c: the only steps that change sem and leave ppc[c] = "idle" for
\* "admitted" or for a 503
ConnectArrives(c) ==
    /\ ppc[c] = "idle"
    /\ ppc'[c] # "idle"
    /\ ~(ppc'[c] = "refused" /\ reply'[c] \in {400, 405})

\* C4: at every moment at most MaxProxyGoroutines tunnels are admitted and
\* unfinished (and sem counts exactly those); a CONNECT (with a well-formed
\* host:port target) that arrives while that many are in flight is answered
\* 503 in that very step, without taking a slot and without waiting.
C4_BoundedTunnels ==
    /\ [](Cardinality(InFlight) <= MaxProxyGoroutines /\ sem = Cardinality(InFlight))
    /\ [][\A c \in Conns :
            (ConnectArrives(c) /\ Cardinality(InFlight) >= MaxProxyGoroutines)
            => /\ ppc'[c] = "refused"
               /\ reply'[c] = 503
               /\ sem' = sem]_vars

\* every slot is taken and a further CONNECT was answered 503
C4_Witness ==
    /\ Cardinality(InFlight) = MaxProxyGoroutines
    /\ \E c \in Conns : ppc[c] = "refused" /\ reply[c] = 503

\* the routing marker occurs in the top-level system field: in a system
\* string, or in the string text of a block of a system array
MarkerInSystem(b) ==
    /\ b.json = "object"
    /\ \/ /\ b.system.kind = "string"
          /\ \E i \in 1..Len(b.system.text) : b.system.text[i].tok = "marker"
       \/ /\ b.system.kind = "array"
          /\ \E k \in 1..Len(b.system.blocks) :
                /\ b.system.blocks[k].isMap
                /\ b.system.blocks[k].hasText
                /\ \E i \in 1..Len(b.system.blocks[k].text) :
                      b.system.blocks[k].text[i].tok = "marker"

\* C5: a request read from a tunnel (its body within the size limit) is
\* handed to forwardLocal if and only if the marker occurs in its top-level
\* system field; every other request is handed to forwardUpstream with the
\* body exactly as the client sent it.
C5_DivertedIffMarkerInSystem ==
    \A c \in Conns :
        route[c].to # "none"
        => /\ route[c].to = "local" <=> MarkerInSystem(cur[c].body)
           /\ route[c].to = "upstream" => route[c].body = cur[c].body

\* the second request of a tunnel has the marker only outside its system
\* field (in its messages) and is about to be relayed unchanged
C5_Witness ==
    \E c \in Conns :
        /\ nread[c] = 2
        /\ nresp[c] = 1
        /\ ppc[c] = "forward"
        /\ route[c].to = "upstream"
        /\ cur[c].body.elsewhere
        /\ cur[c].body.json = "object"

\* C6: within one tunnel a request is read only when every request read
\* before it on that tunnel has had its response completely written.
C6_SerialWithinTunnel ==
    [][\A c \in Conns : nread'[c] > nread[c] => nresp[c] = nread[c]]_vars

\* a tunnel has served two requests one after the other, the second one by a
\* stream that failed after some events, and is ready to read a third
C6_Witness ==
    \E c \in Conns :
        /\ nread[c] = 2
        /\ nresp[c] = 2
        /\ ppc[c] = "tunnel"
        /\ resp[c].ctype = "text/event-stream"
        /\ \E i \in 1..Len(resp[c].body) : resp[c].body[i].type = "error"

\* the response written last is one of handleTunnel's or forwardUpstream's
\* own error answers (400, 413, 502 by sendError)
TunnelError(r) == r.ctype = "" /\ r.status \in {400, 413, 502}

\* C7 as stated: after any answered request the tunnel is torn down if the
\* request carried Connection: close, and otherwise stays open for the next
\* request.
C7_CloseOnlyOnConnectionClose ==
    [][\A c \in Conns :
            nresp'[c] > nresp[c]
            => IF cur'[c].conn = "close" THEN ppc'[c] = "done" ELSE ppc'[c] = "tunnel"]_vars

\* C7 amended: after a request answered by forwardLocal (whatever the
\* outcome) or by a completed relay, the tunnel is torn down exactly when
\* req.Close is set (Connection: close, or HTTP/1.0 without keep-alive) and is
\* otherwise back at reading the next request; after a 400, 413 or 502 error
\* answer of the tunnel itself it is torn down whatever the request said.
C7_CloseOnReqCloseOrFailure ==
    [][\A c \in Conns :
            nresp'[c] > nresp[c]
            => IF TunnelError(resp'[c]) \/ ReqClose(cur'[c])
               THEN ppc'[c] = "done"
               ELSE ppc'[c] = "tunnel"]_vars

\* a tunnel stayed open after its first request, then answered a request
\* without Connection: close by 502 and was torn down
C7_Witness ==
    \E c \in Conns :
        /\ nread[c] = 2
        /\ nresp[c] = 2
        /\ ppc[c] = "done"
        /\ resp[c] = sendError(502)
        /\ ~ReqClose(cur[c])

(***************************************************************************)
(* Request isolation                                                       *)
(***************************************************************************)
Started(r) == chain[r].set

\* transformer objects of a request's chain
ChainObjects(r) == {chain[r].ts[i] : i \in 1..Len(chain[r].ts)}

\* C9: no two routed requests share a transformer object or a
\* TransformContext, and a step of one request's stream changes neither the
\* translator, nor the context, nor any transformer object of another request.
C9_NoSharedStreamState ==
    /\ [](\A r1, r2 \in Requests :
            (Started(r1) /\ Started(r2) /\ r1 # r2)
            => /\ ChainObjects(r1) \cap ChainObjects(r2) = {}
               /\ chain[r1].ctx # chain[r2].ctx)
    /\ [][\A r1, r2 \in Requests :
            (Started(r1) /\ Started(r2) /\ r1 # r2 /\ budget'[r1] < budget[r1])
            => /\ translators'[r2] = translators[r2]
               /\ ctxs'[chain[r2].ctx] = ctxs[chain[r2].ctx]
               /\ \A x \in ChainObjects(r2) : objects'[x] = objects[x]]_vars

\* two requests run the same transforms at the same time, and one of them has
\* seen a tool call and reasoning text while the other has not
C9_Witness ==
    \E r1, r2 \in Requests :
        /\ r1 # r2
        /\ spc[r1] = "scan" /\ spc[r2] = "scan"
        /\ Len(chain[r1].ts) = 2 /\ Len(chain[r2].ts) = 2
        /\ \E x \in ChainObjects(r1) : objects[x].hasToolCall
        /\ \A y \in ChainObjects(r2) : ~objects[y].hasToolCall
        /\ budget[r2] = 0
        /\ budget[r1] = 0

\* ---- chain order ----
Reverse(q) == [i \in 1..Len(q) |-> q[Len(q) + 1 - i]]
LogNames(log) == [i \in 1..Len(log) |-> log[i].name]
PosIn(names, n) == CHOOSE i \in 1..Len(names) : names[i] = n

\* C11: a chain built from [t1..tn] applies the request operation in the
\* order t1..tn and the response and stream-chunk operations in the order
\* tn..t1 (a transformer that is handed no chunk is not called, and the
\* calls of one transformer are not interleaved with another's); an empty
\* chain returns its input unchanged for all three operations.
C11_ChainOrder ==
    /\ tlast.op = "req" => LogNames(tlast.log) = tlast.names
    /\ tlast.op = "resp" => LogNames(tlast.log) = Reverse(tlast.names)
    /\ tlast.op = "stream" =>
          LET ln == LogNames(tlast.log)
              n == Len(tlast.names)
          IN /\ \A i, j \in 1..Len(ln) :
                    i < j => PosIn(tlast.names, ln[i]) >= PosIn(tlast.names, ln[j])
             /\ n > 0 => ln # <<>> /\ ln[1] = tlast.names[n]
             /\ \A k \in 1..n :
                    (\E i \in 1..Len(ln) : ln[i] = tlast.names[k])
                    => \A m \in k..n : \E i \in 1..Len(ln) : ln[i] = tlast.names[m]
             /\ tlast.out # <<>> => {ln[i] : i \in 1..Len(ln)} = {tlast.names[k] : k \in 1..n}
    /\ tlast.names = <<>> =>
          /\ tlast.op \in {"req", "resp"} => tlast.result = tlast.data /\ tlast.err = ""
          /\ tlast.op = "stream" => tlast.out = <<tlast.chunk>>

C11_Witness ==
    /\ tlast.op = "resp"
    /\ tlast.names = <<"a", "b", "c">>
    /\ LogNames(tlast.log) = <<"c", "b", "a">>
    /\ tfed > 0

\* ---- stream expansion ----
\* the chunks a transformer was called with during the last run, in call order
SeenBy(name) ==
    LET calls == SelectSeq(tlast.log, LAMBDA e : e.name = name)
    IN [i \in 1..Len(calls) |-> calls[i].chunk]

\* the chunks a transformer emitted during the last run, in order
RECURSIVE EmittedFor(_, _)
EmittedFor(name, chunks) ==
    IF chunks = <<>> THEN <<>>
    ELSE mockStreamChunkFn(name, Head(chunks)) \o EmittedFor(name, Tail(chunks))

\* position in the backend's stream of the chunk a chunk derives from
Origin(c) == CHOOSE n \in 1..Len(ChunkIds) : ChunkIds[n] = c.id

\* C12: in the stream pipeline every chunk a transformer emits (none, one
\* or several per input chunk) is passed, in order, through each remaining
\* transformer, and the output keeps the order of the backend's stream:
\* chunks derived from an earlier backend chunk precede those derived from
\* a later one.
C12_ExpansionFlowsThrough ==
    /\ tlast.op = "stream" =>
          LET names == tlast.names
              n == Len(names)
              Emitted(k) == EmittedFor(names[k], SeenBy(names[k]))
          IN /\ \A k \in 1..n :
                    SeenBy(names[k]) = IF k = n THEN <<tlast.chunk>> ELSE Emitted(k + 1)
             /\ tlast.out = IF n = 0 THEN <<tlast.chunk>> ELSE Emitted(1)
    /\ \A i, j \in 1..Len(tstream) :
          i < j => Origin(tstream[i]) <= Origin(tstream[j])

C12_Witness ==
    /\ tlast.op = "stream"
    /\ tlast.names = <<"c", "a", "b">>
    /\ Len(SeenBy("a")) = 2
    /\ Len(tlast.out) = 1
    /\ tfed = 2
    /\ Len(tstream) = 2
    /\ Origin(tstream[1]) = 1 /\ Origin(tstream[2]) = 2

\* ---- statuses of failed routed requests ----
\* the response is an Anthropic error body written by sendAnthropicError
IsAnthropicError(r) ==
    /\ r.ctype = "application/json"
    /\ Len(r.body) = 1
    /\ r.body[1].type = "error"

\* what went wrong, as the error message tells it
Cause(r) == r.body[1].text[1]

\* C13: a failed routed request is answered with an Anthropic-shaped error
\* body and status 400 when the label is unknown, 502 when the backend is
\* unreachable, answers non-2xx, or translation (of the request, of the
\* response, or a transform) fails, and 500 for an internal failure.
C13_StatusReflectsCause ==
    \A c \in Conns :
        IsAnthropicError(resp[c]) =>
            resp[c].status =
                IF Cause(resp[c]) = "unknown label" THEN 400
                ELSE IF Cause(resp[c]) \in {"unreachable", "http_error", "readerr",
                                            "reqtranslate", "reqtransform",
                                            "resptranslate", "unparseable"} THEN 502
                ELSE 500

\* ---- unregistered transform ----
\* the chain configured for the request names a transform the registry lacks
NamesUnregistered(names) == \E i \in 1..Len(names) : names[i] \notin TransformNames

\* C14: a routed request whose configured chain names an unregistered
\* transform is not rejected: it is served with an empty chain (no
\* configured transform runs: no transformer is in the chain, the context
\* stays as created, every backend chunk goes to the translator as the
\* backend sent it) and the client gets the translated answer with status 200.
C14_UnknownTransformEmptyChain ==
    [][\A r \in Requests :
          (chain'[r].set /\ NamesUnregistered(chain'[r].configured)) =>
              /\ chain'[r].ts = <<>>
              /\ ctxs'[chain'[r].ctx] = NewTransformContext
              /\ \A line \in BackendLines :
                    (ScanLine(r, line) /\ line.kind = "chunk") =>
                        translators'[r] =
                            processChunk([translators[r] EXCEPT !.consecutiveDrops = 0],
                                         line.chunk)
              /\ (SendStream(r) /\ serr[r] = "") =>
                    /\ wire'[r].status = 200
                    /\ wire'[r].ctype = "text/event-stream"
                    /\ wire'[r].body = translators[r].w]_vars

C14_Witness ==
    \E r \in Requests :
        /\ chain[r].configured = <<"reasoning", "nonexistent">>
        /\ spc[r] = "sent"
        /\ serr[r] = ""
        /\ wire[r].status = 200
        /\ \E i \in 1..Len(wire[r].body) : wire[r].body[i].type = "content_block_delta"

\* ---- LRU eviction ----
\* hostnames the cache has an entry for
Keyed(cch) == {h \in Hosts : cch[h] # NoElem}

\* position of a hostname's most recent use in a list kept in order of use
LastUse(hosts, h) ==
    CHOOSE i \in 1..Len(hosts) :
        hosts[i] = h /\ \A j \in 1..(i - 1) : hosts[j] # h

\* C15: after every GetTLSConfig call returns, the cache holds at most
\* max_size entries, and the entries evicted by the call are the least
\* recently used ones (a hit and an insert both count as a use): every
\* hostname that lost its entry was used less recently than every hostname
\* that kept one.
C15_BoundedAndLRU ==
    [][\A p \in Callers :
          (cpc[p] = "insert" /\ cpc'[p] = "idle") =>
              LET h == chost[p]
                  used == <<h>> \o [i \in 1..Len(order) |-> order[i].hostname]
                  before == Keyed(cache) \cup {h}
                  after == Keyed(cache')
              IN /\ Cardinality(after) <= MitmCacheMaxSize
                 /\ Len(order') <= MitmCacheMaxSize
                 /\ \A x \in before \ after, y \in after :
                       LastUse(used, x) > LastUse(used, y)]_vars

\* ---- body over the limit ----
\* C16: a tunnel request whose body is larger than max_body_bytes is
\* answered 413, is neither routed locally nor forwarded upstream (whatever
\* its system prompt carries), and the tunnel is closed: nothing more is
\* read from it or written to it.
C16_OversizeRejected ==
    [][\A c \in Conns :
          /\ (nread'[c] = nread[c] + 1 /\ cur'[c].size = "over") =>
                /\ resp'[c] = sendError(413)
                /\ route'[c] = NoRoute
                /\ ppc'[c] = "done"
                /\ nresp'[c] = nresp[c] + 1
          /\ (ppc[c] = "done" /\ cur[c].size = "over") =>
                /\ ppc'[c] = "done"
                /\ nread'[c] = nread[c] /\ nresp'[c] = nresp[c]
                /\ resp'[c] = resp[c]]_vars

C16_Witness ==
    \E c \in Conns :
        /\ ppc[c] = "done"
        /\ cur[c].size = "over"
        /\ MarkerInSystem(cur[c].body)
        /\ resp[c].status = 413
        /\ nread[c] = 2 /\ nresp[c] = 2

\* ---- credentials on the local route ----
\* C17: the request sent to the backend for a routed request never carries
\* the client's x-api-key, authorization, anthropic-version or
\* anthropic-beta header values; the only credential it carries is the
\* provider's own API key (and none when the provider has no key).
C17_NoClientCredentialsToBackend ==
    \A c \in Conns :
        backend[c].sent =>
            /\ backend[c].headers.XApiKey = ""
            /\ backend[c].headers.AnthropicVersion = ""
            /\ backend[c].headers.AnthropicBeta = ""
            /\ backend[c].headers.Authorization # ClientHeaders.Authorization
            /\ backend[c].headers.Authorization \in
                  {"", "Bearer provider-secret-key"}

C17_Witness ==
    \E c \in Conns :
        /\ backend[c].sent
        /\ backend[c].headers.Authorization = "Bearer provider-secret-key"
        /\ resp[c].status = 200
        /\ nread[c] = 2

\* ---- what the detector returns on a match ----
HasMarker(t) == \E i \in 1..Len(t) : t[i].tok = "marker"

\* label captured by the first marker of a text
FirstLabel(t) ==
    LET i == CHOOSE k \in 1..Len(t) :
                 t[k].tok = "marker" /\ \A j \in 1..(k - 1) : t[j].tok # "marker"
    IN t[i].model

\* `cleaned` is `t` without its markers and without the whitespace left at
\* its ends
IsCleaned(t, cleaned) ==
    LET rest == SelectSeq(t, LAMBDA x : x.tok # "marker")
        inner == {k \in 1..Len(rest) : rest[k].tok # "space"}
    IN IF inner = {} THEN cleaned = <<>>
       ELSE LET lo == CHOOSE k \in inner : \A m \in inner : k <= m
                hi == CHOOSE k \in inner : \A m \in inner : m <= k
            IN cleaned = SubSeq(rest, lo, hi)

\* a block the detector looks into: an object whose text is a string
TextBlock(b) == b.isMap /\ b.hasText

\* C18: when a marker is found, the detector returns the captured label
\* together with the body in which the marker is removed and the whitespace
\* around what is left is trimmed; in a system array the blocks are scanned
\* in order and the first text block containing a marker decides the label
\* (and is the block that is cleaned); the rest of the body is as it came.
C18_LabelAndStrippedBody ==
    \A c \in Conns :
        (ppc[c] = "forward" /\ route[c].to = "local") =>
            LET orig == cur[c].body
                out == route[c].body
            IN /\ out.json = orig.json
               /\ out.elsewhere = orig.elsewhere /\ out.stream = orig.stream
               /\ out.system.kind = orig.system.kind
               /\ orig.system.kind \in {"string", "array"}
               /\ orig.system.kind = "string" =>
                     /\ HasMarker(orig.system.text)
                     /\ route[c].model = FirstLabel(orig.system.text)
                     /\ IsCleaned(orig.system.text, out.system.text)
               /\ orig.system.kind = "array" =>
                     LET bs == orig.system.blocks
                         marked == {k \in 1..Len(bs) :
                                      TextBlock(bs[k]) /\ HasMarker(bs[k].text)}
                     IN /\ marked # {}
                        /\ Len(out.system.blocks) = Len(bs)
                        /\ \A k \in 1..Len(bs) :
                              IF k \in marked /\ \A m \in marked : k <= m
                              THEN /\ route[c].model = FirstLabel(bs[k].text)
                                   /\ IsCleaned(bs[k].text, out.system.blocks[k].text)
                                   /\ out.system.blocks[k].isMap
                                   /\ out.system.blocks[k].hasText
                              ELSE out.system.blocks[k] = bs[k]

C18_Witness ==
    \E c \in Conns :
        /\ ppc[c] = "forward" /\ route[c].to = "local"
        /\ cur[c].body.system.kind = "array"
        /\ cur[c].body.system.blocks[4].text = <<Sp, Marker("m1"), Sp>>
        /\ route[c].model = "m1"
        /\ route[c].body.system.blocks[4].text = <<>>
        /\ route[c].body.system.blocks[5].text = <<Marker("m2")>>

\* ---- tool calls through enhancetool ----
\* tool_use blocks opened in a piece of output
ToolUseStarts(w) ==
    SelectSeq(w, LAMBDA e : e.type = "content_block_start" /\ e.kind = "tool_use")

\* tool calls a backend chunk starts: the entries of tool_calls with an id
CallsStarted(c) == SelectSeq(c.tools, LAMBDA tc : tc.id # "")

\* C19: with enhancetool in the chain, each tool call streamed by the
\* backend produces exactly one tool_use content block in the Anthropic
\* output, carrying that call's id and name: a backend line opens as many
\* tool_use blocks as it starts tool calls, with their ids and names, and
\* no other line opens any.
C19_OneToolUseBlockPerCall ==
    [][\A r \in Requests, line \in ToolLines :
          (ScanLine(r, line) /\ line.kind = "chunk") =>
              LET new == SubSeq(translators'[r].w, Len(translators[r].w) + 1,
                                Len(translators'[r].w))
                  opened == ToolUseStarts(new)
                  calls == CallsStarted(line.chunk)
              IN /\ Len(opened) = Len(calls)
                 /\ \A k \in 1..Len(calls) :
                       /\ opened[k].id = sanitizeToolID(calls[k].id)
                       /\ opened[k].name = calls[k].name]_vars

\* ---- Connection: close ----
\* C20: whenever the proxy writes a response carrying Connection: close into
\* a tunnel (any error response), it closes the tunnel and processes no
\* further request from it.
C20_ConnectionCloseEndsTunnel ==
    [][\A c \in Conns :
          /\ (nresp'[c] = nresp[c] + 1 /\ resp'[c].close) => ppc'[c] = "done"
          /\ (resp[c].close /\ nresp[c] > 0) => nread'[c] = nread[c]]_vars

\* ---- end of the SSE body ----
CountStops(b) == Len(SelectSeq(b, LAMBDA e : e.type = "message_stop"))

\* C21: the SSE body of every streaming response, including aborted or
\* failed ones, contains exactly one message_stop event and it is the last
\* event of the body.
C21_OneMessageStopLast ==
    \A r \in Requests :
        (spc[r] = "sent" /\ wire[r].ctype = "text/event-stream") =>
            /\ wire[r].body # <<>>
            /\ wire[r].body[Len(wire[r].body)].type = "message_stop"
            /\ CountStops(wire[r].body) = 1

\* ---- tool calls buffered by enhancetool ----
\* indices of the tool calls held in ctx.ToolCallBuffers
Buffered(cx) == {i \in ToolIndices : cx.ToolCallBuffers[i].set}

\* C22: every tool call buffered by enhancetool is flushed before the
\* stream's output ends, whatever the finish_reason (stop, length, none) and
\* also when the stream ends at [DONE] without a finish chunk: once the
\* translation has written its closing events without error, no call is left
\* in the buffers of the request's context.
C22_BufferedCallsFlushed ==
    \A r \in Requests :
        (EndedNormally(r) /\ chain[r].set) => Buffered(ctxs[chain[r].ctx]) = {}

DeltaOf(kind) ==
    IF kind = "text" THEN "text_delta"
    ELSE IF kind = "tool_use" THEN "input_json_delta"
    ELSE "thinking_delta"

\* events i.. of w: every content_block_start carries the next index (next),
\* every delta and stop comes while a block (type open, "" = none) is open
\* and carries its index, a delta has the delta type of its block
RECURSIVE DeltasInBlocks(_, _, _, _)
DeltasInBlocks(w, i, open, next) ==
    IF i > Len(w) THEN TRUE
    ELSE IF w[i].type = "content_block_start"
    THEN open = "" /\ w[i].index = next /\ DeltasInBlocks(w, i + 1, w[i].kind, next)
    ELSE IF w[i].type = "content_block_delta"
    THEN /\ open # ""
         /\ w[i].index = next
         /\ w[i].kind = DeltaOf(open)
         /\ DeltasInBlocks(w, i + 1, open, next)
    ELSE IF w[i].type = "content_block_stop"
    THEN open # "" /\ w[i].index = next /\ DeltasInBlocks(w, i + 1, "", next + 1)
    ELSE DeltasInBlocks(w, i + 1, open, next)

\* C24: every content_block_delta is emitted while a block is open, carries
\* that block's index and has the delta type of that block (text_delta in a
\* text block, input_json_delta in a tool_use block); the block indices are
\* 0, 1, 2, ... in the order the blocks are opened.
C24_DeltasBelongToOpenBlock ==
    \A r \in Requests : DeltasInBlocks(translators[r].w, 1, "", 0)

\* ---- tool calls without enhancetool ----
\* positions in w of the tool_use blocks opened for the call with this id
ToolBlocksOf(w, id) ==
    {i \in 1..Len(w) : /\ w[i].type = "content_block_start"
                       /\ w[i].kind = "tool_use"
                       /\ w[i].id = sanitizeToolID(id)}

\* the block with this index is open at the end of w
BlockOpen(w, ix) ==
    /\ \E i \in 1..Len(w) : w[i].type = "content_block_start" /\ w[i].index = ix
    /\ \A i \in 1..Len(w) : ~(w[i].type = "content_block_stop" /\ w[i].index = ix)

\* C25: a chunk that starts a tool call (it has an id) closes any open block
\* and opens a new tool_use block with the sanitized id and the function
\* name; every later argument fragment of that call is emitted as an
\* input_json_delta in that call's block.
C25_FragmentsGoToTheirCall ==
    [][\A r \in Requests, line \in BackendLines :
          (ScanLine(r, line) /\ line.kind = "chunk" /\ line.chunk.tools # <<>>) =>
              LET w == translators[r].w
                  tc == line.chunk.tools[1]
                  new == SubSeq(translators'[r].w, Len(w) + 1, Len(translators'[r].w))
                  blocks == ToolBlocksOf(w, "call/1")
              IN /\ tc.id # "" =>
                       /\ new # <<>>
                       /\ new[Len(new)].type = "content_block_start"
                       /\ new[Len(new)].kind = "tool_use"
                       /\ new[Len(new)].id = sanitizeToolID(tc.id)
                       /\ new[Len(new)].name = tc.name
                       /\ \A ix \in 0..Len(w) : ~BlockOpen(SubSeq(translators'[r].w, 1,
                                                      Len(translators'[r].w) - 1), ix)
                 /\ (tc.id = "" /\ tc.args # <<>> /\ blocks # {}) =>
                       LET b == w[CHOOSE i \in blocks : \A j \in blocks : j <= i].index
                       IN /\ BlockOpen(w, b)
                          /\ \E k \in 1..Len(new) :
                                /\ new[k].type = "content_block_delta"
                                /\ new[k].kind = "input_json_delta"
                                /\ new[k].index = b
                                /\ new[k].text = tc.args]_vars

\* ---- enhancetool, chunk by chunk ----
\* what the chain hands to processChunk for a backend line of request r
GivenFor(r, line) == ScanStep(translators[r], chain[r], objects, ctxs, line).given

\* the buffered indices in ascending order
RECURSIVE Ascending(_)
Ascending(S) ==
    IF S = {} THEN <<>>
    ELSE LET m == CHOOSE i \in S : \A j \in S : i <= j
         IN <<m>> \o Ascending(S \ {m})

C29_FlushedArgumentsAreAllThatWasSent ==
    [][\A r \in Requests, line \in ToolLines :
          (ScanLine(r, line) /\ line.kind = "chunk") =>
              LET c == line.chunk
                  g == GivenFor(r, line)
                  before == ctxs[chain[r].ctx].ToolCallBuffers
                  after == ctxs'[chain[r].ctx].ToolCallBuffers
              IN /\ (c.tools # <<>> /\ c.tools[1].id # "") =>
                       after[c.tools[1].index].Arguments = c.tools[1].args
                 /\ (c.tools # <<>> /\ c.tools[1].id = ""
                        /\ before[c.tools[1].index].set) =>
                       after[c.tools[1].index].Arguments =
                           before[c.tools[1].index].Arguments \o c.tools[1].args
                 /\ (c.finish = "tool_calls" /\ Buffered(ctxs[chain[r].ctx]) # {}) =>
                       \A i \in Buffered(ctxs[chain[r].ctx]) :
                           \E k \in 1..Len(g[1].tools) :
                               /\ g[1].tools[k].index = i
                               /\ g[1].tools[k].args = FixJSON(before[i].Arguments)]_vars

\* ---- think-tag extraction ----
\* the content text and the thinking text carried by a sequence of chunks
RECURSIVE ContentOf(_)
ContentOf(chunks) ==
    IF chunks = <<>> THEN <<>>
    ELSE (IF Head(chunks).hasContent THEN Head(chunks).content ELSE <<>>)
            \o ContentOf(Tail(chunks))

\* what the transformer returns when the whole text comes as one chunk
InOneChunk(name, text) ==
    ThinkTagStreamChunk(NewTransformer(name), NewTransformContext, ContentChunk(text)).out

\* C26: the output of the think-tag machines does not depend on how the
\* content is split into chunks: however the text fed so far was chunked
\* (a closing tag split across chunks included), the concatenated content
\* and the concatenated thinking text are those of the same text fed as one
\* chunk.
C26_ChunkingIndependent ==
    (fpc = "ready" /\ fgiven # <<>>) =>
        /\ ContentOf(fout) = ContentOf(InOneChunk(ftr.name, fgiven))
        /\ ThinkingText(fout) = ThinkingText(InOneChunk(ftr.name, fgiven))

\* C27: for a stream that holds no think tag, the think-tag machine passes
\* exactly the input text on as content: the concatenation of the content
\* deltas it returned equals the concatenation of the content it was fed.
C27_NoTagPassesThrough ==
    (fpc = "ready" /\ Index(fgiven, openTag(ftr.name)) = 0) =>
        /\ ContentOf(fout) = fgiven
        /\ ThinkingText(fout) = <<>>

\* ---- tooluse, chunk by chunk ----
\* C30: with tooluse, once a tool-call chunk names ExitTool, that chunk and
\* every later fragment for its index are suppressed (the fragments'
\* arguments being accumulated), and on the chunk carrying a finish_reason a
\* single synthetic content chunk is emitted whose content is the response
\* field of the accumulated arguments and whose finish_reason is stop.
C30_ExitToolBecomesText ==
    [][\A r \in Requests, line \in ExitLines :
          (ScanLine(r, line) /\ line.kind = "chunk") =>
              LET c == line.chunk
                  g == GivenFor(r, line)
                  before == ctxs[chain[r].ctx]
                  after == ctxs'[chain[r].ctx]
              IN /\ (c.tools # <<>> /\ c.tools[1].name = "ExitTool") =>
                       /\ g = <<>>
                       /\ after.ExitToolIndex = c.tools[1].index
                 /\ (c.tools # <<>> /\ c.tools[1].name # "ExitTool"
                        /\ before.ExitToolIndex = c.tools[1].index) =>
                       /\ g = <<>>
                       /\ after.ExitToolArgs = before.ExitToolArgs \o c.tools[1].args
                 /\ (c.tools # <<>> /\ c.tools[1].name # "ExitTool"
                        /\ before.ExitToolIndex # c.tools[1].index) =>
                       g = <<c>>
                 /\ (c.finish # "nil" /\ before.ExitToolIndex >= 0) =>
                       /\ Len(g) = 1
                       /\ g[1].hasContent
                       /\ g[1].content = ExitResponse(before.ExitToolArgs)
                       /\ before.ExitToolArgs = <<"{", "resp", "}">> =>
                             g[1].content = <<"answer">>
                       /\ g[1].finish = "stop"
                       /\ g[1].tools = <<>>]_vars

\* an ExitTool call came in three chunks and a tool_calls finish chunk: the
\* client got the response text as a text block and no tool_use block
C30_Witness ==
    \E r \in Requests :
        /\ ctxs # <<>>
        /\ chain[r].set
        /\ ctxs[chain[r].ctx].ExitToolArgs = <<"{", "resp", "}">>
        /\ translators[r].finishReason = "stop"
        /\ ToolUseStarts(translators[r].w) = <<>>
        /\ \E i \in 1..Len(translators[r].w) :
              /\ translators[r].w[i].type = "content_block_delta"
              /\ translators[r].w[i].kind = "text_delta"
              /\ translators[r].w[i].text = <<"answer">>

\* ---- ExitTool, over the whole stream ----
\* text deltas written to the client that carry the ExitTool response
ExitAnswers(w) ==
    SelectSeq(w, LAMBDA e : e.type = "content_block_delta" /\ e.kind = "text_delta"
                            /\ e.text = <<"answer">>)

\* C31: within one stream the tooluse transform emits the ExitTool response
\* text at most once, also when more than one chunk carries a finish_reason.
C31_ExitResponseAtMostOnce ==
    \A r \in Requests : Len(ExitAnswers(translators[r].w)) <= 1

\* C32: the synthetic content emitted by tooluse is the response field of
\* the concatenation of all the ExitTool argument text the backend sent, the
\* arguments carried by the chunk that names ExitTool included: the
\* accumulated text starts with the naming chunk's arguments, grows by every
\* fragment for that index, and the content emitted is its response field.
C32_ExitArgumentsAreAllThatWasSent ==
    [][\A r \in Requests, line \in ExitLines :
          (ScanLine(r, line) /\ line.kind = "chunk") =>
              LET c == line.chunk
                  g == GivenFor(r, line)
                  before == ctxs[chain[r].ctx]
                  after == ctxs'[chain[r].ctx]
              IN /\ (c.tools # <<>> /\ c.tools[1].name = "ExitTool"
                        /\ before.ExitToolIndex < 0) =>
                       after.ExitToolArgs = c.tools[1].args
                 /\ (c.tools # <<>> /\ c.tools[1].name # "ExitTool"
                        /\ before.ExitToolIndex = c.tools[1].index) =>
                       after.ExitToolArgs = before.ExitToolArgs \o c.tools[1].args
                 /\ (c.finish # "nil" /\ before.ExitToolIndex >= 0) =>
                       /\ g # <<>>
                       /\ g[1].content = ExitResponse(before.ExitToolArgs)]_vars


\* ---- the reasoning transform, over the whole stream ----
\* C33: in a stream handled by the reasoning transform, the first content
\* delta that follows reasoning deltas yields exactly two chunks in order, a
\* thinking-close chunk carrying a signature and then the content chunk with
\* choice.index raised by 1; the boundary is emitted at most once per stream
\* (once emitted it is recorded for good), and every other content delta
\* yields exactly one chunk, itself.
C33_BoundaryOnceThenContent ==
    [][\A r \in Requests, line \in BackendLines :
          (/\ ScanLine(r, line)
           /\ chain[r].configured = <<"reasoning">>
           /\ line.kind = "chunk" /\ line.chunk.choices
           /\ line.chunk.hasContent /\ line.chunk.rkey # "reasoning_content") =>
              LET c == line.chunk
                  g == GivenFor(r, line)
                  before == ctxs[chain[r].ctx]
                  after == ctxs'[chain[r].ctx]
              IN IF fed[r] # <<>> /\ ~before.ReasoningComplete
                 THEN /\ Len(g) = 2
                      /\ g[1].thinking = "signature" /\ ~g[1].hasContent
                      /\ g[2] = [c EXCEPT !.index = c.index + 1]
                      /\ after.ReasoningComplete
                 ELSE /\ g = <<c>>
                      /\ after.ReasoningComplete = before.ReasoningComplete]_vars

\* the boundary was emitted, and a content delta came after it
C33_Witness ==
    \E r \in Requests :
        /\ chain[r].set /\ chain[r].configured = <<"reasoning">>
        /\ fed[r] # <<>>
        /\ ctxs[chain[r].ctx].ReasoningComplete
        /\ Len(SelectSeq(translators[r].w,
                         LAMBDA e : e.type = "content_block_delta"
                                    /\ e.kind = "text_delta")) >= 2


\* ---- think-tag extraction: the open tag split across two chunks ----
\* C34: when the open tag is split across two chunks, the think-tag machine
\* holds back the partial prefix and emits only the text before it as
\* content; once the next chunk completes the tag it emits the enclosed text
\* as thinking, then one thinking-close chunk with a signature, then the
\* post-tag text as content.
C34_SplitOpenTag ==
    [][\A piece \in AllPieces :
          (FeedContent(piece) /\ Index(fgiven, openTag(ftr.name)) = 0) =>
              LET name == ftr.name
                  new == SubSeq(fout', Len(fout) + 1, Len(fout'))
              IN /\ \* the chunk ends in the first character of the tag
                    (/\ ~HasSuffix(fgiven, <<"<">>)
                     /\ HasSuffix(piece, <<"<">>)
                     /\ Index(piece, openTag(name)) = 0) =>
                        /\ ContentOf(new) = SubSeq(piece, 1, Len(piece) - 1)
                        /\ ThinkingText(new) = <<>>
                 /\ \* the chunk completes the tag
                    (HasSuffix(fgiven, <<"<">>) /\ piece \in TagCompletions(name)) =>
                        LET close == Index(piece, closeTag(name))
                            enc == SubSeq(piece, 2, close - 1)
                            post == SubSeq(piece, close + Len(closeTag(name)), Len(piece))
                        IN new = (IF enc # <<>>
                                  THEN <<ThinkingChunk(ContentChunk(piece), enc)>>
                                  ELSE <<>>)
                                 \o <<ThinkingCloseChunk>>
                                 \o (IF post # <<>>
                                     THEN <<[ContentChunk(post) EXCEPT !.index = 1]>>
                                     ELSE <<>>)]_vars


\* ---- enhancetool: which indices have a buffer ----
\* C35: with enhancetool a buffer exists for an index only if a chunk bearing
\* an id for that index was seen (the translator has then opened a tool_use
\* block for the index), and a fragment for an index without a buffer is
\* forwarded unchanged, no buffer being made for it.
C35_BufferOnlyAfterId ==
    [][\A r \in Requests, line \in ToolLines :
          ScanLine(r, line) =>
              LET c == line.chunk
                  before == ctxs[chain[r].ctx].ToolCallBuffers
                  after == ctxs'[chain[r].ctx].ToolCallBuffers
              IN /\ \A i \in ToolIndices :
                       after[i].set => i \in translators'[r].toolCalls
                 /\ (/\ line.kind = "chunk"
                     /\ c.tools # <<>> /\ c.tools[1].id = ""
                     /\ ~before[c.tools[1].index].set) =>
                        /\ GivenFor(r, line) = <<c>>
                        /\ after = before]_vars

\* a fragment for index 1, which never had an id-bearing chunk, reached the
\* client as it was while the call of index 0 is held in its buffer
C35_Witness ==
    \E r \in Requests :
        /\ chain[r].set
        /\ 1 \notin translators[r].toolCalls
        /\ 0 \in Buffered(ctxs[chain[r].ctx])
        /\ \E i \in 1..Len(translators[r].w) :
              /\ translators[r].w[i].type = "content_block_delta"
              /\ translators[r].w[i].kind = "input_json_delta"
              /\ translators[r].w[i].text = <<"kv">>


\* ---- errors of the transform chain ----
\* C36: when the transform chain returns an error for 3 consecutive backend
\* chunks the translation aborts with an error; fewer consecutive failures
\* only drop those chunks: nothing is written for them and the translation
\* goes on.
C36_ThreeTransformErrorsAbort ==
    [][\A r \in Requests, line \in FailLines :
          (ScanLine(r, line) /\ failed'[r] > failed[r]) =>
              IF failed'[r] >= 3
              THEN serr'[r] # "" /\ spc'[r] = "returned"
              ELSE /\ serr'[r] = "" /\ spc'[r] = "scan"
                   /\ translators'[r].w = translators[r].w]_vars


\* ---- admission slots ----
\* C37: every admitted CONNECT gives back its admission slot exactly once
\* when it ends, on every exit path (hijack failure, certificate failure, TLS
\* handshake failure, client disconnect, error response): the step that ends
\* a tunnel takes one off sem, sem only goes down in such a step, and once
\* all tunnels have ended the full capacity is available.
C37_SlotReturnedOnEveryExit ==
    /\ [][/\ \A c \in Conns :
               (c \in InFlight /\ ppc'[c] \notin {"admitted", "tunnel", "forward"}) =>
                   (ppc'[c] = "done" /\ sem' = sem - 1)
          /\ sem' < sem =>
               \E c \in Conns : c \in InFlight /\ ppc'[c] = "done" /\ sem' = sem - 1]_vars
    /\ [](InFlight = {} => sem = 0)

\* all tunnels have ended, one before it was set up and one after an answer
\* was written, and no slot is taken
C37_Witness ==
    /\ InFlight = {}
    /\ sem = 0
    /\ \E c \in Conns : ppc[c] = "done" /\ nread[c] = 0
    /\ \E c \in Conns : ppc[c] = "done" /\ nresp[c] > 0


\* ---- expired certificates ----
\* C38: GetTLSConfig never returns a cached certificate whose entry is older
\* than the validity period: a call that finds such an entry removes it from
\* the list and the map and returns nothing from the cache, a call that
\* returns from the cache found an entry younger than the validity period,
\* and the freshly minted certificate is cached under the hostname when the
\* call returns.
C38_ExpiredEntryReplaced ==
    [][\A p \in Callers :
          /\ \A h \in Hosts :
                (GetTLSConfigLookup(p, h) /\ cache[h] # NoElem) =>
                    IF now - ElemOf(order, cache[h]).created >= Validity
                    THEN /\ cpc'[p] = "generate"
                         /\ cache'[h] = NoElem
                         /\ SeqIndexOfElem(order', cache[h]) = 0
                         /\ issued' = issued
                    ELSE /\ cpc'[p] = "idle"
                         /\ issued'[h] = issued[h] \cup
                               {[serial |-> ElemOf(order, cache[h]).serial,
                                 created |-> ElemOf(order, cache[h]).created]}
          /\ GetTLSConfigInsert(p) =>
                /\ cache'[chost[p]] # NoElem
                /\ ElemOf(order', cache'[chost[p]]).serial = ccert[p]
                /\ ElemOf(order', cache'[chost[p]]).created = now]_vars


\* ---- empty content deltas ----
\* C39: a content delta whose text is empty never opens a content block and
\* never emits a delta event: the events written for such a chunk hold no
\* content_block_start and no content_block_delta, and no text block is open
\* afterwards that was not open before.
C39_EmptyContentIgnored ==
    [][\A r \in Requests, line \in BackendLines :
          (/\ ScanLine(r, line)
           /\ line.kind = "chunk" /\ line.chunk.choices
           /\ line.chunk.hasContent /\ line.chunk.content = <<>>) =>
              LET w == translators[r].w
                  new == SubSeq(translators'[r].w, Len(w) + 1, Len(translators'[r].w))
              IN /\ \A i \in 1..Len(new) :
                       new[i].type \notin {"content_block_start", "content_block_delta"}
                 /\ translators'[r].inTextBlock = translators[r].inTextBlock
                 /\ translators'[r].blockIndex = translators[r].blockIndex]_vars

\* an empty content delta came after reasoning (the reasoning transform has
\* recorded content) and the stream, started, has opened no block
C39_Witness ==
    \E r \in Requests :
        /\ chain[r].set /\ chain[r].configured = <<"reasoning">>
        /\ ctxs[chain[r].ctx].HasTextContent
        /\ translators[r].started
        /\ \A i \in 1..Len(translators[r].w) :
              translators[r].w[i].type # "content_block_start"


\* ---- the map and the list of the certificate cache ----
\* C40: after any interleaving of GetTLSConfig calls the cache map and the
\* LRU list describe the same set of entries: every list element's hostname
\* maps to that very element, and every map value is an element of the list.
C40_MapAndListAgree ==
    /\ \A i \in 1..Len(order) : cache[order[i].hostname] = order[i].id
    /\ \A h \in Hosts : cache[h] # NoElem => SeqIndexOfElem(order, cache[h]) # 0
====
